---------------------------- MODULE Spec2Model ----------------------------
(***************************************************************************)
(* A model of libfft (src/fft.h): the byte cursor (fft_span_t), the        *)
(* sector-addressed reader fft_io_read, and the GNS directory decoder      *)
(* fft_record_read / fft_record_read_all.                                  *)
(*                                                                         *)
(* Conventions                                                             *)
(*  - A byte is a number in 0..255.  A C array is a TLA+ sequence, so the  *)
(*    C element data[k] is data[k+1] here.                                 *)
(*  - The model checker's integers are 32-bit signed.  int32_t and every   *)
(*    narrower C type are plain integers; a uint32_t VALUE READ FROM DATA  *)
(*    is kept as its two 16-bit halves [hi, lo] (value = hi * 65536 + lo), *)
(*    so that 0xFFFFFFFF is representable.                                 *)
(*  - FFT_ASSERT prints and calls exit(): status becomes "fatal" and no    *)
(*    further operation runs.  A read outside a buffer is undefined        *)
(*    behaviour: the process either faults (status "crashed") or goes on   *)
(*    with whatever bytes lie behind the buffer.                           *)
(***************************************************************************)
EXTENDS Integers, Sequences, FiniteSets, TLC

VARIABLES
    span,      \* the fft_span_t under use: [data, size, offset]
    status,    \* "running" | "fatal" (FFT_ASSERT -> exit) | "crashed" (fault)
               \* | "corrupted" (memory overwritten, not followed further)
    last,      \* the last call made: its name, arguments and results
    disc,      \* the raw disc image behind _fft_state.io.file: [seed, len]
    mem,       \* _fft_state.mem, the allocation ledger
    image,     \* the fft_image_t under use
    clut,      \* the fft_image_t that holds the palette rows
    map,       \* the fft_map_data_t that fft_map_data_read returned
    allocations_head  \* the list of live allocation headers, newest first

vars == <<span, status, last, disc, mem, image, clut, map, allocations_head>>

---------------------------------------------------------------------------
(* Bounds of the model.                                                    *)

\* Longest byte buffer of the cursor specification.
MaxLen == 4

\* Bytes behind the end of a buffer whose (indeterminate) value is tracked
\* when fft_span_read_bytes runs over the end.
MaxJunk == 1

\* Byte values the cursor specification draws buffers from: the sign and
\* byte-order cases of src/test.c (00 80, FF 7F, 00 00 00 80, FF FF FF 7F).
ByteVals == {0, 127, 128, 255}

---------------------------------------------------------------------------
(* Arithmetic helpers: C's shifts and masks on non-negative values.        *)

Pow2(n) == 2 ^ n

\* x >> n
Shr(x, n) == x \div Pow2(n)

\* x & (2^n - 1)
MaskLow(x, n) == x % Pow2(n)

Min(a, b) == IF a < b THEN a ELSE b

Max(a, b) == IF a > b THEN a ELSE b

\* All sequences over S of length exactly n / at most n.
SeqsOfLen(S, n) == [1..n -> S]

SeqsUpTo(S, n) == UNION { SeqsOfLen(S, k) : k \in 0..n }

(* The value a little-endian host's memcpy gives an unsigned integer of     *)
(* width 8 * Len(bs) <= 16 bits from the bytes bs.                          *)
RECURSIVE LeValue(_)
LeValue(bs) ==
    IF bs = <<>> THEN 0 ELSE Head(bs) + 256 * LeValue(Tail(bs))

\* Reinterpretation of an unsigned w-bit pattern as two's complement.
AsSigned(v, w) == IF v >= Pow2(w - 1) THEN v - Pow2(w) ELSE v

---------------------------------------------------------------------------
(* Process-wide state that the cursor operations leave alone.              *)

\* fft_mem_init: the ledger with every counter zero.
fft_mem_init ==
    [usage_peak |-> 0, usage_total |-> 0, usage_current |-> 0,
     allocations_total |-> 0, allocations_current |-> 0]

\* No call made yet.
NoCall == [op |-> "none"]

\* A call that returned nothing (it ended in FFT_ASSERT's exit or a fault).
NoValue == "no value"

\* A span variable that holds no buffer (zero-initialised).
NoSpan == [data |-> <<>>, size |-> 0, offset |-> 0]

\* A disc image that no operation of the specification at hand reads.
NoDisc == [seed |-> 0, len |-> 0]

\* The null pointer.
NULL == "NULL"

(* An fft_image_t variable that holds no image (zero-initialised).  The    *)
(* data pointer is [ptr, bytes]: ptr is NULL or "heap" (a live allocation  *)
(* of fft_mem_alloc), bytes the buffer's contents.                         *)
NoImage ==
    [width |-> 0, height |-> 0, size |-> 0,
     data |-> [ptr |-> NULL, bytes |-> <<>>], valid |-> FALSE]

\* A fft_map_data_t pointer that holds no map.
NoMap == [ptr |-> NULL]

---------------------------------------------------------------------------
(* Span Implementation (src/fft.h, "Span Implementation").                 *)

\* This is the size of a map texture, the largest file size read.
FFT_SPAN_MAX_BYTES == 131072

\* The types FFT_FN_SPAN_READ is instantiated with.
SpanTypes == {"u8", "u16", "u32", "i8", "i16", "i32"}

\* sizeof(type)
SizeOf(name) ==
    CASE name \in {"u8", "i8"} -> 1
      [] name \in {"u16", "i16"} -> 2
      [] name \in {"u32", "i32"} -> 4

(* memcpy(&value, &span->data[span->offset], sizeof(type)) on the           *)
(* little-endian hosts the library is built and tested on (src/test.c      *)
(* expects 34 12 to read as 0x1234): bs are the sizeof(type) bytes.        *)
MemcpyValue(name, bs) ==
    CASE name = "u8"  -> LeValue(bs)
      [] name = "i8"  -> AsSigned(LeValue(bs), 8)
      [] name = "u16" -> LeValue(bs)
      [] name = "i16" -> AsSigned(LeValue(bs), 16)
      [] name = "u32" -> [hi |-> LeValue(SubSeq(bs, 3, 4)),
                          lo |-> LeValue(SubSeq(bs, 1, 2))]
      [] name = "i32" -> AsSigned(LeValue(SubSeq(bs, 3, 4)), 16) * 65536
                             + LeValue(SubSeq(bs, 1, 2))

\* FFT_FN_SPAN_READ with "<" for "<=" in its bounds assertion.
fft_span_read_strict(name, s) ==
    IF s.offset + SizeOf(name) < s.size
    THEN [status |-> "running",
          value  |-> MemcpyValue(name,
                        SubSeq(s.data, s.offset + 1, s.offset + SizeOf(name))),
          span   |-> [s EXCEPT !.offset = @ + SizeOf(name)]]
    ELSE [status |-> "fatal", value |-> NoValue, span |-> s]

(* fft_span_read_<name>: assert that sizeof(type) bytes remain, copy them  *)
(* into the value, advance the offset.                                     *)
fft_span_read(name, s) ==
    IF s.offset + SizeOf(name) <= s.size
    THEN [status |-> "running",
          value  |-> MemcpyValue(name,
                        SubSeq(s.data, s.offset + 1, s.offset + SizeOf(name))),
          span   |-> [s EXCEPT !.offset = @ + SizeOf(name)]]
    ELSE [status |-> "fatal", value |-> NoValue, span |-> s]

(* fft_span_read_bytes: the only check is on the transfer size; the copy   *)
(* and the advance are made whether or not size bytes remain.  The result  *)
(* is the SET of outcomes.  When the copy stays inside the buffer there is *)
(* one.  When it runs over the end (undefined behaviour) the process       *)
(* either faults or copies what lies behind the buffer: out.bytes then     *)
(* holds the in-buffer bytes followed by the first MaxJunk bytes read      *)
(* from behind it, each of them arbitrary; out.len is the count copied.    *)
fft_span_read_bytes(f, size) ==
    IF ~(size <= FFT_SPAN_MAX_BYTES)
    THEN {[status |-> "fatal", out |-> NoValue, span |-> f]}
    ELSE LET avail  == Max(0, f.size - f.offset)
             inside == Min(size, avail)
             over   == size - inside
         IN  IF over = 0
             THEN {[status |-> "running",
                    out    |-> [len |-> size,
                                bytes |-> SubSeq(f.data, f.offset + 1,
                                                 f.offset + size)],
                    span   |-> [f EXCEPT !.offset = @ + size]]}
             ELSE {[status |-> "crashed", out |-> NoValue, span |-> f]}
                  \cup
                  {[status |-> "running",
                    out    |-> [len |-> size,
                                bytes |-> SubSeq(f.data, f.offset + 1,
                                                 f.offset + inside) \o junk],
                    span   |-> [f EXCEPT !.offset = @ + size]]
                     : junk \in SeqsOfLen(ByteVals, Min(over, MaxJunk))}

\* fft_span_set_offset
fft_span_set_offset(f, offset) ==
    IF offset <= f.size
    THEN [status |-> "running", span |-> [f EXCEPT !.offset = offset]]
    ELSE [status |-> "fatal", span |-> f]

---------------------------------------------------------------------------
(* The cursor specification: a cursor created over any buffer of at most   *)
(* MaxLen bytes with offset <= size, then any sequence of calls.           *)

InitSpan ==
    /\ span \in { [data |-> d, size |-> Len(d), offset |-> o] :
                    d \in SeqsUpTo(ByteVals, MaxLen), o \in 0..MaxLen }
    /\ span.offset <= span.size
    /\ status = "running"
    /\ last = NoCall
    /\ disc = NoDisc
    /\ mem = fft_mem_init
    /\ image = NoImage
    /\ clut = NoImage
    /\ map = NoMap
    /\ allocations_head = <<>>

\* A call of fft_span_read_<name>(&span).
SpanRead ==
    /\ status = "running"
    /\ \E name \in SpanTypes :
         LET r == fft_span_read(name, span)
         IN  /\ span' = r.span
             /\ status' = r.status
             /\ last' = [op |-> "fft_span_read", type |-> name,
                         pre |-> span.offset, value |-> r.value]
    /\ UNCHANGED <<disc, mem, image, clut, map, allocations_head>>

(* A call of fft_span_read_bytes(&span, size, out).  Sizes: everything up  *)
(* to one more than the longest buffer, and both sides of the limit.  The  *)
(* offset is an unbounded counter under repeated overruns: the call is     *)
(* made only while it is at most MaxLen.                                   *)
SpanReadBytes ==
    /\ status = "running"
    /\ span.offset <= MaxLen
    /\ \E size \in (0..(MaxLen + 1))
                     \cup {FFT_SPAN_MAX_BYTES, FFT_SPAN_MAX_BYTES + 1} :
         \E r \in fft_span_read_bytes(span, size) :
             /\ span' = r.span
             /\ status' = r.status
             /\ last' = [op |-> "fft_span_read_bytes", size |-> size,
                         pre |-> span.offset, out |-> r.out]
    /\ UNCHANGED <<disc, mem, image, clut, map, allocations_head>>

\* A call of fft_span_set_offset(&span, offset).
SpanSetOffset ==
    /\ status = "running"
    /\ \E offset \in 0..(MaxLen + 1) :
         LET r == fft_span_set_offset(span, offset)
         IN  /\ span' = r.span
             /\ status' = r.status
             /\ last' = [op |-> "fft_span_set_offset", offset |-> offset,
                         pre |-> span.offset]
    /\ UNCHANGED <<disc, mem, image, clut, map, allocations_head>>

NextSpan == SpanRead \/ SpanReadBytes \/ SpanSetOffset

SpecSpan == InitSpan /\ [][NextSpan]_vars

---------------------------------------------------------------------------
(* Claims about the cursor.                                                *)

(* C1: for a cursor created with offset <= size, after any sequence of     *)
(* typed reads, fft_span_read_bytes and fft_span_set_offset calls that     *)
(* does not terminate the process, offset <= size still holds.             *)
C1_OffsetWithinSize ==
    status = "running" => span.offset <= span.size

\* The bytes data[pre .. pre+k-1] of the span, as a sequence.
BytesAt(pre, k) == SubSeq(span.data, pre + 1, pre + k)

\* The value the claim C2 gives a read of type name from the bytes b.
C2_Expected(name, b) ==
    CASE name = "u8"  -> b[1]
      [] name = "i8"  -> b[1] - (IF b[1] >= 128 THEN 256 ELSE 0)
      [] name = "u16" -> b[1] + 256 * b[2]
      [] name = "i16" -> b[1] + 256 * b[2] - (IF b[2] >= 128 THEN 65536 ELSE 0)
      [] name = "u32" -> [hi |-> b[3] + 256 * b[4], lo |-> b[1] + 256 * b[2]]
      [] name = "i32" -> b[1] + 256 * b[2] + 65536 * b[3]
                           + 16777216 * (b[4] - (IF b[4] >= 128 THEN 256 ELSE 0))

(* C2: fft_span_read_<T>, called with at least sizeof(T) bytes remaining,  *)
(* returns the value the next sizeof(T) bytes encode little-endian (two's  *)
(* complement for signed T; 00 80 read as i16 gives -32768) and advances   *)
(* the offset by exactly sizeof(T); called with fewer bytes remaining it   *)
(* fails with the out-of-bounds error and returns no value.                *)
C2_TypedRead ==
    last.op = "fft_span_read" =>
        LET k == SizeOf(last.type)
            b == BytesAt(last.pre, k)
        IN  IF last.pre + k <= span.size
            THEN /\ status = "running"
                 /\ last.value = C2_Expected(last.type, b)
                 /\ span.offset = last.pre + k
                 /\ (last.type = "i16" /\ b = <<0, 128>>)
                        => last.value = -32768
            ELSE /\ status = "fatal"
                 /\ last.value = NoValue
                 /\ span.offset = last.pre

\* C2's case: 00 80 has just been read as an i16, at the very end of a buffer.
C2_Witness ==
    /\ last.op = "fft_span_read"
    /\ last.type = "i16"
    /\ status = "running"
    /\ BytesAt(last.pre, 2) = <<0, 128>>
    /\ last.value = -32768
    /\ span.offset = span.size

(* C3: fft_span_read_bytes(n) with n <= 131072 copies exactly the n bytes  *)
(* data[offset .. offset+n-1] into the output in order and advances the    *)
(* offset by exactly n; a request with n > 131072 is fatal and neither     *)
(* copies nor advances.                                                    *)
C3_ReadBytes ==
    last.op = "fft_span_read_bytes" =>
        IF last.size <= FFT_SPAN_MAX_BYTES
        THEN /\ status = "running"
             /\ last.pre + last.size <= span.size
             /\ last.out = [len |-> last.size,
                            bytes |-> BytesAt(last.pre, last.size)]
             /\ span.offset = last.pre + last.size
        ELSE /\ status = "fatal"
             /\ last.out = NoValue
             /\ span.offset = last.pre

---------------------------------------------------------------------------
(* Memory Implementation: the part fft_io_read goes through.               *)

(* fft_mem_alloc(size, file, line, tag): the ledger's counters.  calloc is *)
(* taken to succeed; the header list (size, file, line, tag per live       *)
(* allocation) feeds only fft_mem_shutdown's leak report and is kept by    *)
(* the memory specification alone.                                         *)
fft_mem_alloc(m, size, tag) ==
    [m EXCEPT !.usage_current = @ + size,
              !.usage_peak = Max(@, m.usage_current + size),
              !.usage_total = @ + size,
              !.allocations_total = @ + 1,
              !.allocations_current = @ + 1]

\* fft_mem_free with the peak following the usage down.
fft_mem_free_peak(m, size) ==
    [m EXCEPT !.allocations_current = @ - 1,
              !.usage_current = @ - size,
              !.usage_peak = m.usage_current - size]

(* fft_mem_free(ptr) of a live allocation of the given size (every free    *)
(* the model makes is of a non-NULL pointer fft_mem_alloc returned).       *)
fft_mem_free(m, size) ==
    [m EXCEPT !.allocations_current = @ - 1,
              !.usage_current = @ - size]

---------------------------------------------------------------------------
(* IO/Filesystem Implementation.                                           *)

FFT_IO_SECTOR_SIZE == 2048

FFT_IO_SECTOR_SIZE_RAW == 2352

FFT_IO_SECTOR_HEADER_SIZE == 24

\* INT32_MAX
Int32Max == 2147483647

\* The catalog: FFT_IO_INDEX expanded into fft_io_file_list, in its order.
fft_io_file_list == <<
    [sector |-> 1000, size |-> 1397096, name |-> "BATTLE.BIN"],
    [sector |-> 59862, size |-> 37377, name |-> "BATTLE/10M.SPR"],
    [sector |-> 59881, size |-> 37377, name |-> "BATTLE/10W.SPR"],
    [sector |-> 59900, size |-> 37377, name |-> "BATTLE/20M.SPR"],
    [sector |-> 59919, size |-> 37377, name |-> "BATTLE/20W.SPR"],
    [sector |-> 59938, size |-> 37377, name |-> "BATTLE/40M.SPR"],
    [sector |-> 59957, size |-> 37377, name |-> "BATTLE/40W.SPR"],
    [sector |-> 59976, size |-> 37377, name |-> "BATTLE/60M.SPR"],
    [sector |-> 59995, size |-> 37377, name |-> "BATTLE/60W.SPR"],
    [sector |-> 57141, size |-> 47100, name |-> "BATTLE/ADORA.SPR"],
    [sector |-> 57164, size |-> 43309, name |-> "BATTLE/AGURI.SPR"],
    [sector |-> 57186, size |-> 43822, name |-> "BATTLE/AJORA.SPR"],
    [sector |-> 57208, size |-> 41475, name |-> "BATTLE/ARLI.SPR"],
    [sector |-> 60113, size |-> 32768, name |-> "BATTLE/ARLI2.SP2"],
    [sector |-> 57229, size |-> 43358, name |-> "BATTLE/ARU.SPR"],
    [sector |-> 57251, size |-> 43325, name |-> "BATTLE/ARUFU.SPR"],
    [sector |-> 57273, size |-> 43822, name |-> "BATTLE/ARUMA.SPR"],
    [sector |-> 57062, size |-> 2476, name |-> "BATTLE/ARUTE.SEQ"],
    [sector |-> 57034, size |-> 1944, name |-> "BATTLE/ARUTE.SHP"],
    [sector |-> 57295, size |-> 47888, name |-> "BATTLE/ARUTE.SPR"],
    [sector |-> 57319, size |-> 43955, name |-> "BATTLE/BARITEN.SPR"],
    [sector |-> 57341, size |-> 44632, name |-> "BATTLE/BARU.SPR"],
    [sector |-> 57363, size |-> 44172, name |-> "BATTLE/BARUNA.SPR"],
    [sector |-> 57385, size |-> 46393, name |-> "BATTLE/BEHI.SPR"],
    [sector |-> 60129, size |-> 32768, name |-> "BATTLE/BEHI2.SP2"],
    [sector |-> 57408, size |-> 43746, name |-> "BATTLE/BEIO.SPR"],
    [sector |-> 60145, size |-> 32768, name |-> "BATTLE/BIBU2.SP2"],
    [sector |-> 57430, size |-> 44353, name |-> "BATTLE/BIBUROS.SPR"],
    [sector |-> 57452, size |-> 42546, name |-> "BATTLE/BOM.SPR"],
    [sector |-> 60161, size |-> 32768, name |-> "BATTLE/BOM2.SP2"],
    [sector |-> 57473, size |-> 42953, name |-> "BATTLE/CLOUD.SPR"],
    [sector |-> 57053, size |-> 3068, name |-> "BATTLE/CYOKO.SEQ"],
    [sector |-> 57026, size |-> 7316, name |-> "BATTLE/CYOKO.SHP"],
    [sector |-> 57494, size |-> 49572, name |-> "BATTLE/CYOKO.SPR"],
    [sector |-> 60014, size |-> 37377, name |-> "BATTLE/CYOMON1.SPR"],
    [sector |-> 60033, size |-> 37377, name |-> "BATTLE/CYOMON2.SPR"],
    [sector |-> 60052, size |-> 37377, name |-> "BATTLE/CYOMON3.SPR"],
    [sector |-> 60071, size |-> 37377, name |-> "BATTLE/CYOMON4.SPR"],
    [sector |-> 57519, size |-> 43648, name |-> "BATTLE/DAISU.SPR"],
    [sector |-> 57541, size |-> 44690, name |-> "BATTLE/DAMI.SPR"],
    [sector |-> 57563, size |-> 45648, name |-> "BATTLE/DEMON.SPR"],
    [sector |-> 60177, size |-> 32768, name |-> "BATTLE/DEMON2.SP2"],
    [sector |-> 57586, size |-> 43462, name |-> "BATTLE/DILY.SPR"],
    [sector |-> 57608, size |-> 43163, name |-> "BATTLE/DILY2.SPR"],
    [sector |-> 57630, size |-> 44422, name |-> "BATTLE/DILY3.SPR"],
    [sector |-> 57652, size |-> 44442, name |-> "BATTLE/DORA.SPR"],
    [sector |-> 57674, size |-> 46754, name |-> "BATTLE/DORA1.SPR"],
    [sector |-> 57697, size |-> 46437, name |-> "BATTLE/DORA2.SPR"],
    [sector |-> 60193, size |-> 32768, name |-> "BATTLE/DORA22.SP2"],
    [sector |-> 57000, size |-> 32832, name |-> "BATTLE/EFC_FNT.TIM"],
    [sector |-> 57080, size |-> 1244, name |-> "BATTLE/EFF1.SEQ"],
    [sector |-> 57076, size |-> 3144, name |-> "BATTLE/EFF1.SHP"],
    [sector |-> 57081, size |-> 1244, name |-> "BATTLE/EFF2.SEQ"],
    [sector |-> 57078, size |-> 3144, name |-> "BATTLE/EFF2.SHP"],
    [sector |-> 60353, size |-> 81920, name |-> "BATTLE/ENTD1.ENT"],
    [sector |-> 60393, size |-> 81920, name |-> "BATTLE/ENTD2.ENT"],
    [sector |-> 60433, size |-> 81920, name |-> "BATTLE/ENTD3.ENT"],
    [sector |-> 60473, size |-> 81920, name |-> "BATTLE/ENTD4.ENT"],
    [sector |-> 57720, size |-> 43909, name |-> "BATTLE/ERU.SPR"],
    [sector |-> 57742, size |-> 37377, name |-> "BATTLE/FURAIA.SPR"],
    [sector |-> 57761, size |-> 43845, name |-> "BATTLE/FUSUI_M.SPR"],
    [sector |-> 57783, size |-> 43812, name |-> "BATTLE/FUSUI_W.SPR"],
    [sector |-> 57805, size |-> 44698, name |-> "BATTLE/FYUNE.SPR"],
    [sector |-> 57827, size |-> 42967, name |-> "BATTLE/GANDO.SPR"],
    [sector |-> 57848, size |-> 43687, name |-> "BATTLE/GARU.SPR"],
    [sector |-> 57870, size |-> 44623, name |-> "BATTLE/GIN_M.SPR"],
    [sector |-> 57892, size |-> 41268, name |-> "BATTLE/GOB.SPR"],
    [sector |-> 57913, size |-> 44734, name |-> "BATTLE/GORU.SPR"],
    [sector |-> 57935, size |-> 43822, name |-> "BATTLE/GYUMU.SPR"],
    [sector |-> 57957, size |-> 44172, name |-> "BATTLE/H61.SPR"],
    [sector |-> 57979, size |-> 43476, name |-> "BATTLE/H75.SPR"],
    [sector |-> 58001, size |-> 43557, name |-> "BATTLE/H76.SPR"],
    [sector |-> 58023, size |-> 43560, name |-> "BATTLE/H77.SPR"],
    [sector |-> 58045, size |-> 43560, name |-> "BATTLE/H78.SPR"],
    [sector |-> 58067, size |-> 43207, name |-> "BATTLE/H79.SPR"],
    [sector |-> 58089, size |-> 43362, name |-> "BATTLE/H80.SPR"],
    [sector |-> 58111, size |-> 43462, name |-> "BATTLE/H81.SPR"],
    [sector |-> 58133, size |-> 43822, name |-> "BATTLE/H82.SPR"],
    [sector |-> 58155, size |-> 43332, name |-> "BATTLE/H83.SPR"],
    [sector |-> 58177, size |-> 43362, name |-> "BATTLE/H85.SPR"],
    [sector |-> 58199, size |-> 47430, name |-> "BATTLE/HASYU.SPR"],
    [sector |-> 58223, size |-> 48525, name |-> "BATTLE/HEBI.SPR"],
    [sector |-> 58247, size |-> 44670, name |-> "BATTLE/HIME.SPR"],
    [sector |-> 58269, size |-> 43553, name |-> "BATTLE/HYOU.SPR"],
    [sector |-> 60209, size |-> 32768, name |-> "BATTLE/HYOU2.SP2"],
    [sector |-> 58291, size |-> 42126, name |-> "BATTLE/IKA.SPR"],
    [sector |-> 60225, size |-> 32768, name |-> "BATTLE/IRON2.SP2"],
    [sector |-> 60241, size |-> 32768, name |-> "BATTLE/IRON3.SP2"],
    [sector |-> 60257, size |-> 32768, name |-> "BATTLE/IRON4.SP2"],
    [sector |-> 60273, size |-> 32768, name |-> "BATTLE/IRON5.SP2"],
    [sector |-> 58312, size |-> 44438, name |-> "BATTLE/ITEM_M.SPR"],
    [sector |-> 58334, size |-> 43955, name |-> "BATTLE/ITEM_W.SPR"],
    [sector |-> 58356, size |-> 43309, name |-> "BATTLE/KANBA.SPR"],
    [sector |-> 57064, size |-> 2068, name |-> "BATTLE/KANZEN.SEQ"],
    [sector |-> 57035, size |-> 2584, name |-> "BATTLE/KANZEN.SHP"],
    [sector |-> 58378, size |-> 48194, name |-> "BATTLE/KANZEN.SPR"],
    [sector |-> 58402, size |-> 40516, name |-> "BATTLE/KASANEK.SPR"],
    [sector |-> 58422, size |-> 40516, name |-> "BATTLE/KASANEM.SPR"],
    [sector |-> 58442, size |-> 45205, name |-> "BATTLE/KI.SPR"],
    [sector |-> 58465, size |-> 44406, name |-> "BATTLE/KNIGHT_M.SPR"],
    [sector |-> 58487, size |-> 44433, name |-> "BATTLE/KNIGHT_W.SPR"],
    [sector |-> 58509, size |-> 45623, name |-> "BATTLE/KURO_M.SPR"],
    [sector |-> 58532, size |-> 44669, name |-> "BATTLE/KURO_W.SPR"],
    [sector |-> 58554, size |-> 48094, name |-> "BATTLE/KYUKU.SPR"],
    [sector |-> 58578, size |-> 43325, name |-> "BATTLE/LEDY.SPR"],
    [sector |-> 58600, size |-> 42967, name |-> "BATTLE/MARA.SPR"],
    [sector |-> 58621, size |-> 43433, name |-> "BATTLE/MINA_M.SPR"],
    [sector |-> 58643, size |-> 43529, name |-> "BATTLE/MINA_W.SPR"],
    [sector |-> 58665, size |-> 47737, name |-> "BATTLE/MINOTA.SPR"],
    [sector |-> 60289, size |-> 32768, name |-> "BATTLE/MINOTA2.SP2"],
    [sector |-> 58689, size |-> 47102, name |-> "BATTLE/MOL.SPR"],
    [sector |-> 60305, size |-> 32768, name |-> "BATTLE/MOL2.SP2"],
    [sector |-> 57055, size |-> 5882, name |-> "BATTLE/MON.SEQ"],
    [sector |-> 57030, size |-> 2276, name |-> "BATTLE/MON.SHP"],
    [sector |-> 58712, size |-> 43336, name |-> "BATTLE/MONK_M.SPR"],
    [sector |-> 58734, size |-> 43195, name |-> "BATTLE/MONK_W.SPR"],
    [sector |-> 58756, size |-> 44371, name |-> "BATTLE/MONO_M.SPR"],
    [sector |-> 58778, size |-> 43478, name |-> "BATTLE/MONO_W.SPR"],
    [sector |-> 58800, size |-> 43687, name |-> "BATTLE/MUSU.SPR"],
    [sector |-> 58822, size |-> 43572, name |-> "BATTLE/NINJA_M.SPR"],
    [sector |-> 58844, size |-> 43622, name |-> "BATTLE/NINJA_W.SPR"],
    [sector |-> 58866, size |-> 43332, name |-> "BATTLE/ODORI_W.SPR"],
    [sector |-> 58888, size |-> 43886, name |-> "BATTLE/ONMYO_M.SPR"],
    [sector |-> 58910, size |-> 44626, name |-> "BATTLE/ONMYO_W.SPR"],
    [sector |-> 58932, size |-> 44368, name |-> "BATTLE/ORAN.SPR"],
    [sector |-> 58954, size |-> 44593, name |-> "BATTLE/ORU.SPR"],
    [sector |-> 57058, size |-> 2414, name |-> "BATTLE/OTHER.SEQ"],
    [sector |-> 57032, size |-> 2264, name |-> "BATTLE/OTHER.SHP"],
    [sector |-> 57124, size |-> 33792, name |-> "BATTLE/OTHER.SPR"],
    [sector |-> 58976, size |-> 43207, name |-> "BATTLE/RAFA.SPR"],
    [sector |-> 58998, size |-> 45379, name |-> "BATTLE/RAGU.SPR"],
    [sector |-> 59021, size |-> 43354, name |-> "BATTLE/RAMUZA.SPR"],
    [sector |-> 59043, size |-> 43154, name |-> "BATTLE/RAMUZA2.SPR"],
    [sector |-> 59065, size |-> 43009, name |-> "BATTLE/RAMUZA3.SPR"],
    [sector |-> 59087, size |-> 44187, name |-> "BATTLE/REZE.SPR"],
    [sector |-> 59109, size |-> 46744, name |-> "BATTLE/REZE_D.SPR"],
    [sector |-> 59132, size |-> 43817, name |-> "BATTLE/RUDO.SPR"],
    [sector |-> 57060, size |-> 2482, name |-> "BATTLE/RUKA.SEQ"],
    [sector |-> 59154, size |-> 44265, name |-> "BATTLE/RYU_M.SPR"],
    [sector |-> 59176, size |-> 43599, name |-> "BATTLE/RYU_W.SPR"],
    [sector |-> 59198, size |-> 44235, name |-> "BATTLE/SAMU_M.SPR"],
    [sector |-> 59220, size |-> 44495, name |-> "BATTLE/SAMU_W.SPR"],
    [sector |-> 59242, size |-> 44395, name |-> "BATTLE/SAN_M.SPR"],
    [sector |-> 59264, size |-> 44741, name |-> "BATTLE/SAN_W.SPR"],
    [sector |-> 59286, size |-> 43332, name |-> "BATTLE/SERIA.SPR"],
    [sector |-> 59308, size |-> 45924, name |-> "BATTLE/SIMON.SPR"],
    [sector |-> 59331, size |-> 44378, name |-> "BATTLE/SIRO_M.SPR"],
    [sector |-> 59353, size |-> 47285, name |-> "BATTLE/SIRO_W.SPR"],
    [sector |-> 60090, size |-> 45899, name |-> "BATTLE/SOURYO.SPR"],
    [sector |-> 59377, size |-> 42442, name |-> "BATTLE/SUKERU.SPR"],
    [sector |-> 59398, size |-> 45741, name |-> "BATTLE/SYOU_M.SPR"],
    [sector |-> 59421, size |-> 44838, name |-> "BATTLE/SYOU_W.SPR"],
    [sector |-> 59443, size |-> 46001, name |-> "BATTLE/TETSU.SPR"],
    [sector |-> 59466, size |-> 43670, name |-> "BATTLE/THIEF_M.SPR"],
    [sector |-> 59488, size |-> 43442, name |-> "BATTLE/THIEF_W.SPR"],
    [sector |-> 59510, size |-> 44348, name |-> "BATTLE/TOKI_M.SPR"],
    [sector |-> 59532, size |-> 44543, name |-> "BATTLE/TOKI_W.SPR"],
    [sector |-> 59554, size |-> 43332, name |-> "BATTLE/TORI.SPR"],
    [sector |-> 60321, size |-> 32768, name |-> "BATTLE/TORI2.SP2"],
    [sector |-> 57037, size |-> 6754, name |-> "BATTLE/TYPE1.SEQ"],
    [sector |-> 57017, size |-> 8192, name |-> "BATTLE/TYPE1.SHP"],
    [sector |-> 57041, size |-> 6545, name |-> "BATTLE/TYPE2.SEQ"],
    [sector |-> 57021, size |-> 8728, name |-> "BATTLE/TYPE2.SHP"],
    [sector |-> 57045, size |-> 6820, name |-> "BATTLE/TYPE3.SEQ"],
    [sector |-> 57049, size |-> 6634, name |-> "BATTLE/TYPE4.SEQ"],
    [sector |-> 59576, size |-> 40595, name |-> "BATTLE/URI.SPR"],
    [sector |-> 60337, size |-> 32768, name |-> "BATTLE/URI2.SP2"],
    [sector |-> 59596, size |-> 46848, name |-> "BATTLE/VERI.SPR"],
    [sector |-> 59619, size |-> 43554, name |-> "BATTLE/VORU.SPR"],
    [sector |-> 59641, size |-> 44283, name |-> "BATTLE/WAJU_M.SPR"],
    [sector |-> 59663, size |-> 44062, name |-> "BATTLE/WAJU_W.SPR"],
    [sector |-> 57082, size |-> 85504, name |-> "BATTLE/WEP.SPR"],
    [sector |-> 57072, size |-> 2607, name |-> "BATTLE/WEP1.SEQ"],
    [sector |-> 57066, size |-> 5218, name |-> "BATTLE/WEP1.SHP"],
    [sector |-> 57074, size |-> 2657, name |-> "BATTLE/WEP2.SEQ"],
    [sector |-> 57069, size |-> 5436, name |-> "BATTLE/WEP2.SHP"],
    [sector |-> 59685, size |-> 43748, name |-> "BATTLE/WIGU.SPR"],
    [sector |-> 59707, size |-> 43233, name |-> "BATTLE/YUMI_M.SPR"],
    [sector |-> 59729, size |-> 43107, name |-> "BATTLE/YUMI_W.SPR"],
    [sector |-> 59751, size |-> 41970, name |-> "BATTLE/YUREI.SPR"],
    [sector |-> 59772, size |-> 43521, name |-> "BATTLE/ZARU.SPR"],
    [sector |-> 59794, size |-> 43521, name |-> "BATTLE/ZARU2.SPR"],
    [sector |-> 59816, size |-> 47018, name |-> "BATTLE/ZARUE.SPR"],
    [sector |-> 59839, size |-> 45897, name |-> "BATTLE/ZARUMOU.SPR"],
    [sector |-> 60513, size |-> 65536, name |-> "BATTLE/ZODIAC.BIN"],
    [sector |-> 6714, size |-> 90325, name |-> "EVENT/ATCHELP.LZW"],
    [sector |-> 2448, size |-> 125956, name |-> "EVENT/ATTACK.OUT"],
    [sector |-> 5824, size |-> 958464, name |-> "EVENT/BONUS.BIN"],
    [sector |-> 5771, size |-> 8636, name |-> "EVENT/BTLEVT.BIN"],
    [sector |-> 2832, size |-> 187316, name |-> "EVENT/BUNIT.OUT"],
    [sector |-> 2768, size |-> 107260, name |-> "EVENT/CARD.OUT"],
    [sector |-> 5776, size |-> 8192, name |-> "EVENT/CHAPTER1.BIN"],
    [sector |-> 5780, size |-> 8192, name |-> "EVENT/CHAPTER2.BIN"],
    [sector |-> 5784, size |-> 8192, name |-> "EVENT/CHAPTER3.BIN"],
    [sector |-> 5788, size |-> 8192, name |-> "EVENT/CHAPTER4.BIN"],
    [sector |-> 2512, size |-> 64756, name |-> "EVENT/DEBUGCHR.OUT"],
    [sector |-> 2064, size |-> 0, name |-> "EVENT/DEBUGMAP.OUT"],
    [sector |-> 6394, size |-> 131072, name |-> "EVENT/END1.BIN"],
    [sector |-> 6458, size |-> 131072, name |-> "EVENT/END2.BIN"],
    [sector |-> 6522, size |-> 131072, name |-> "EVENT/END3.BIN"],
    [sector |-> 6586, size |-> 131072, name |-> "EVENT/END4.BIN"],
    [sector |-> 6650, size |-> 131072, name |-> "EVENT/END5.BIN"],
    [sector |-> 2640, size |-> 172884, name |-> "EVENT/EQUIP.OUT"],
    [sector |-> 2576, size |-> 7548, name |-> "EVENT/ETC.OUT"],
    [sector |-> 7500, size |-> 4208640, name |-> "EVENT/EVTCHR.BIN"],
    [sector |-> 5707, size |-> 65536, name |-> "EVENT/EVTFACE.BIN"],
    [sector |-> 2960, size |-> 0, name |-> "EVENT/EVTOOL.OUT"],
    [sector |-> 3650, size |-> 77000, name |-> "EVENT/FONT.BIN"],
    [sector |-> 3688, size |-> 37568, name |-> "EVENT/FRAME.BIN"],
    [sector |-> 5792, size |-> 65536, name |-> "EVENT/GAMEOVER.BIN"],
    [sector |-> 7320, size |-> 92608, name |-> "EVENT/HELP.LZW"],
    [sector |-> 2256, size |-> 99716, name |-> "EVENT/HELPMENU.OUT"],
    [sector |-> 6297, size |-> 33280, name |-> "EVENT/ITEM.BIN"],
    [sector |-> 2384, size |-> 112732, name |-> "EVENT/JOBSTTS.OUT"],
    [sector |-> 7256, size |-> 16886, name |-> "EVENT/JOIN.LZW"],
    [sector |-> 3500, size |-> 307200, name |-> "EVENT/MAPTITLE.BIN"],
    [sector |-> 7192, size |-> 21881, name |-> "EVENT/OPEN.LZW"],
    [sector |-> 2128, size |-> 54508, name |-> "EVENT/OPTION.OUT"],
    [sector |-> 2192, size |-> 127684, name |-> "EVENT/REQUIRE.OUT"],
    [sector |-> 7064, size |-> 19336, name |-> "EVENT/SAMPLE.LZW"],
    [sector |-> 2000, size |-> 7891, name |-> "EVENT/SMALL.OUT"],
    [sector |-> 7000, size |-> 14085, name |-> "EVENT/SPELL.MES"],
    [sector |-> 3707, size |-> 4096000, name |-> "EVENT/TEST.EVT"],
    [sector |-> 5739, size |-> 65536, name |-> "EVENT/UNIT.BIN"],
    [sector |-> 6292, size |-> 10240, name |-> "EVENT/WIN001.BIN"],
    [sector |-> 6330, size |-> 131072, name |-> "EVENT/WLDFACE.BIN"],
    [sector |-> 6314, size |-> 32768, name |-> "EVENT/WLDFACE4.BIN"],
    [sector |-> 7416, size |-> 110052, name |-> "EVENT/WLDHELP.LZW"],
    [sector |-> 7128, size |-> 58077, name |-> "EVENT/WORLD.LZW"],
    [sector |-> 10026, size |-> 208, name |-> "MAP/MAP000.GNS"],
    [sector |-> 11304, size |-> 2388, name |-> "MAP/MAP001.GNS"],
    [sector |-> 12656, size |-> 2288, name |-> "MAP/MAP002.GNS"],
    [sector |-> 12938, size |-> 568, name |-> "MAP/MAP003.GNS"],
    [sector |-> 13570, size |-> 1368, name |-> "MAP/MAP004.GNS"],
    [sector |-> 14239, size |-> 1068, name |-> "MAP/MAP005.GNS"],
    [sector |-> 14751, size |-> 1468, name |-> "MAP/MAP006.GNS"],
    [sector |-> 15030, size |-> 628, name |-> "MAP/MAP007.GNS"],
    [sector |-> 15595, size |-> 1028, name |-> "MAP/MAP008.GNS"],
    [sector |-> 16262, size |-> 1468, name |-> "MAP/MAP009.GNS"],
    [sector |-> 16347, size |-> 248, name |-> "MAP/MAP010.GNS"],
    [sector |-> 16852, size |-> 1548, name |-> "MAP/MAP011.GNS"],
    [sector |-> 17343, size |-> 1288, name |-> "MAP/MAP012.GNS"],
    [sector |-> 17627, size |-> 568, name |-> "MAP/MAP013.GNS"],
    [sector |-> 18175, size |-> 1268, name |-> "MAP/MAP014.GNS"],
    [sector |-> 19510, size |-> 1928, name |-> "MAP/MAP015.GNS"],
    [sector |-> 20075, size |-> 1128, name |-> "MAP/MAP016.GNS"],
    [sector |-> 20162, size |-> 592, name |-> "MAP/MAP017.GNS"],
    [sector |-> 20745, size |-> 1248, name |-> "MAP/MAP018.GNS"],
    [sector |-> 21411, size |-> 1148, name |-> "MAP/MAP019.GNS"],
    [sector |-> 21692, size |-> 548, name |-> "MAP/MAP020.GNS"],
    [sector |-> 22270, size |-> 1368, name |-> "MAP/MAP021.GNS"],
    [sector |-> 22938, size |-> 1368, name |-> "MAP/MAP022.GNS"],
    [sector |-> 23282, size |-> 708, name |-> "MAP/MAP023.GNS"],
    [sector |-> 23557, size |-> 528, name |-> "MAP/MAP024.GNS"],
    [sector |-> 23899, size |-> 708, name |-> "MAP/MAP025.GNS"],
    [sector |-> 23988, size |-> 248, name |-> "MAP/MAP026.GNS"],
    [sector |-> 24266, size |-> 628, name |-> "MAP/MAP027.GNS"],
    [sector |-> 24544, size |-> 528, name |-> "MAP/MAP028.GNS"],
    [sector |-> 24822, size |-> 628, name |-> "MAP/MAP029.GNS"],
    [sector |-> 25099, size |-> 588, name |-> "MAP/MAP030.GNS"],
    [sector |-> 25764, size |-> 1148, name |-> "MAP/MAP031.GNS"],
    [sector |-> 26042, size |-> 648, name |-> "MAP/MAP032.GNS"],
    [sector |-> 26229, size |-> 528, name |-> "MAP/MAP033.GNS"],
    [sector |-> 26362, size |-> 588, name |-> "MAP/MAP034.GNS"],
    [sector |-> 27028, size |-> 1148, name |-> "MAP/MAP035.GNS"],
    [sector |-> 27643, size |-> 1188, name |-> "MAP/MAP036.GNS"],
    [sector |-> 27793, size |-> 308, name |-> "MAP/MAP037.GNS"],
    [sector |-> 28467, size |-> 1228, name |-> "MAP/MAP038.GNS"],
    [sector |-> 28555, size |-> 268, name |-> "MAP/MAP039.GNS"],
    [sector |-> 29165, size |-> 988, name |-> "MAP/MAP040.GNS"],
    [sector |-> 29311, size |-> 568, name |-> "MAP/MAP041.GNS"],
    [sector |-> 29653, size |-> 668, name |-> "MAP/MAP042.GNS"],
    [sector |-> 29807, size |-> 368, name |-> "MAP/MAP043.GNS"],
    [sector |-> 30473, size |-> 1148, name |-> "MAP/MAP044.GNS"],
    [sector |-> 30622, size |-> 328, name |-> "MAP/MAP045.GNS"],
    [sector |-> 30966, size |-> 668, name |-> "MAP/MAP046.GNS"],
    [sector |-> 31697, size |-> 1488, name |-> "MAP/MAP047.GNS"],
    [sector |-> 32365, size |-> 1168, name |-> "MAP/MAP048.GNS"],
    [sector |-> 33032, size |-> 1128, name |-> "MAP/MAP049.GNS"],
    [sector |-> 33701, size |-> 1148, name |-> "MAP/MAP050.GNS"],
    [sector |-> 34349, size |-> 1328, name |-> "MAP/MAP051.GNS"],
    [sector |-> 34440, size |-> 288, name |-> "MAP/MAP052.GNS"],
    [sector |-> 34566, size |-> 648, name |-> "MAP/MAP053.GNS"],
    [sector |-> 34647, size |-> 228, name |-> "MAP/MAP054.GNS"],
    [sector |-> 34745, size |-> 468, name |-> "MAP/MAP055.GNS"],
    [sector |-> 35350, size |-> 1228, name |-> "MAP/MAP056.GNS"],
    [sector |-> 35436, size |-> 248, name |-> "MAP/MAP057.GNS"],
    [sector |-> 35519, size |-> 248, name |-> "MAP/MAP058.GNS"],
    [sector |-> 35603, size |-> 248, name |-> "MAP/MAP059.GNS"],
    [sector |-> 35683, size |-> 248, name |-> "MAP/MAP060.GNS"],
    [sector |-> 35765, size |-> 368, name |-> "MAP/MAP061.GNS"],
    [sector |-> 36052, size |-> 548, name |-> "MAP/MAP062.GNS"],
    [sector |-> 36394, size |-> 628, name |-> "MAP/MAP063.GNS"],
    [sector |-> 36530, size |-> 548, name |-> "MAP/MAP064.GNS"],
    [sector |-> 36612, size |-> 248, name |-> "MAP/MAP065.GNS"],
    [sector |-> 37214, size |-> 1108, name |-> "MAP/MAP066.GNS"],
    [sector |-> 37817, size |-> 1108, name |-> "MAP/MAP067.GNS"],
    [sector |-> 38386, size |-> 1088, name |-> "MAP/MAP068.GNS"],
    [sector |-> 38473, size |-> 228, name |-> "MAP/MAP069.GNS"],
    [sector |-> 38622, size |-> 328, name |-> "MAP/MAP070.GNS"],
    [sector |-> 39288, size |-> 1168, name |-> "MAP/MAP071.GNS"],
    [sector |-> 39826, size |-> 1088, name |-> "MAP/MAP072.GNS"],
    [sector |-> 40120, size |-> 608, name |-> "MAP/MAP073.GNS"],
    [sector |-> 40724, size |-> 968, name |-> "MAP/MAP074.GNS"],
    [sector |-> 41391, size |-> 1188, name |-> "MAP/MAP075.GNS"],
    [sector |-> 41865, size |-> 1068, name |-> "MAP/MAP076.GNS"],
    [sector |-> 42532, size |-> 1188, name |-> "MAP/MAP077.GNS"],
    [sector |-> 43200, size |-> 1228, name |-> "MAP/MAP078.GNS"],
    [sector |-> 43295, size |-> 768, name |-> "MAP/MAP079.GNS"],
    [sector |-> 43901, size |-> 1088, name |-> "MAP/MAP080.GNS"],
    [sector |-> 44569, size |-> 1128, name |-> "MAP/MAP081.GNS"],
    [sector |-> 45044, size |-> 1068, name |-> "MAP/MAP082.GNS"],
    [sector |-> 45164, size |-> 1316, name |-> "MAP/MAP083.GNS"],
    [sector |-> 45829, size |-> 1128, name |-> "MAP/MAP084.GNS"],
    [sector |-> 46498, size |-> 948, name |-> "MAP/MAP085.GNS"],
    [sector |-> 47167, size |-> 948, name |-> "MAP/MAP086.GNS"],
    [sector |-> 47260, size |-> 808, name |-> "MAP/MAP087.GNS"],
    [sector |-> 47928, size |-> 988, name |-> "MAP/MAP088.GNS"],
    [sector |-> 48595, size |-> 1128, name |-> "MAP/MAP089.GNS"],
    [sector |-> 49260, size |-> 1128, name |-> "MAP/MAP090.GNS"],
    [sector |-> 49538, size |-> 628, name |-> "MAP/MAP091.GNS"],
    [sector |-> 50108, size |-> 1088, name |-> "MAP/MAP092.GNS"],
    [sector |-> 50387, size |-> 528, name |-> "MAP/MAP093.GNS"],
    [sector |-> 50554, size |-> 448, name |-> "MAP/MAP094.GNS"],
    [sector |-> 51120, size |-> 1048, name |-> "MAP/MAP095.GNS"],
    [sector |-> 51416, size |-> 568, name |-> "MAP/MAP096.GNS"],
    [sector |-> 52082, size |-> 1108, name |-> "MAP/MAP097.GNS"],
    [sector |-> 52749, size |-> 1128, name |-> "MAP/MAP098.GNS"],
    [sector |-> 53414, size |-> 1128, name |-> "MAP/MAP099.GNS"],
    [sector |-> 53502, size |-> 228, name |-> "MAP/MAP100.GNS"],
    [sector |-> 53579, size |-> 268, name |-> "MAP/MAP101.GNS"],
    [sector |-> 53659, size |-> 228, name |-> "MAP/MAP102.GNS"],
    [sector |-> 54273, size |-> 1088, name |-> "MAP/MAP103.GNS"],
    [sector |-> 54359, size |-> 328, name |-> "MAP/MAP104.GNS"],
    [sector |-> 54528, size |-> 728, name |-> "MAP/MAP105.GNS"],
    [sector |-> 54621, size |-> 628, name |-> "MAP/MAP106.GNS"],
    [sector |-> 54716, size |-> 628, name |-> "MAP/MAP107.GNS"],
    [sector |-> 54812, size |-> 628, name |-> "MAP/MAP108.GNS"],
    [sector |-> 54909, size |-> 628, name |-> "MAP/MAP109.GNS"],
    [sector |-> 55004, size |-> 628, name |-> "MAP/MAP110.GNS"],
    [sector |-> 55097, size |-> 668, name |-> "MAP/MAP111.GNS"],
    [sector |-> 55192, size |-> 608, name |-> "MAP/MAP112.GNS"],
    [sector |-> 55286, size |-> 628, name |-> "MAP/MAP113.GNS"],
    [sector |-> 55383, size |-> 628, name |-> "MAP/MAP114.GNS"],
    [sector |-> 56051, size |-> 1128, name |-> "MAP/MAP115.GNS"],
    [sector |-> 56123, size |-> 208, name |-> "MAP/MAP116.GNS"],
    [sector |-> 56201, size |-> 208, name |-> "MAP/MAP117.GNS"],
    [sector |-> 56279, size |-> 208, name |-> "MAP/MAP118.GNS"],
    [sector |-> 56356, size |-> 208, name |-> "MAP/MAP119.GNS"],
    [sector |-> 56435, size |-> 208, name |-> "MAP/MAP125.GNS"],
    [sector |-> 72198, size |-> 65556, name |-> "MENU/BK_FITR.TIM"],
    [sector |-> 72231, size |-> 65556, name |-> "MENU/BK_FITR2.TIM"],
    [sector |-> 72264, size |-> 65556, name |-> "MENU/BK_FITR3.TIM"],
    [sector |-> 72099, size |-> 65556, name |-> "MENU/BK_HONE.TIM"],
    [sector |-> 72132, size |-> 65556, name |-> "MENU/BK_HONE2.TIM"],
    [sector |-> 72165, size |-> 65556, name |-> "MENU/BK_HONE3.TIM"],
    [sector |-> 72000, size |-> 65556, name |-> "MENU/BK_SHOP.TIM"],
    [sector |-> 72033, size |-> 65556, name |-> "MENU/BK_SHOP2.TIM"],
    [sector |-> 72066, size |-> 65556, name |-> "MENU/BK_SHOP3.TIM"],
    [sector |-> 72319, size |-> 8064, name |-> "MENU/FFTSAVE.DAT"],
    [sector |-> 72298, size |-> 2186, name |-> "MENU/TUTO1.MES"],
    [sector |-> 72297, size |-> 286, name |-> "MENU/TUTO1.SCR"],
    [sector |-> 72301, size |-> 5052, name |-> "MENU/TUTO2.MES"],
    [sector |-> 72300, size |-> 296, name |-> "MENU/TUTO2.SCR"],
    [sector |-> 72305, size |-> 5406, name |-> "MENU/TUTO3.MES"],
    [sector |-> 72304, size |-> 723, name |-> "MENU/TUTO3.SCR"],
    [sector |-> 72309, size |-> 3103, name |-> "MENU/TUTO4.MES"],
    [sector |-> 72308, size |-> 189, name |-> "MENU/TUTO4.SCR"],
    [sector |-> 72312, size |-> 4815, name |-> "MENU/TUTO5.MES"],
    [sector |-> 72311, size |-> 327, name |-> "MENU/TUTO5.SCR"],
    [sector |-> 72316, size |-> 1924, name |-> "MENU/TUTO6.MES"],
    [sector |-> 72315, size |-> 117, name |-> "MENU/TUTO6.SCR"],
    [sector |-> 72318, size |-> 725, name |-> "MENU/TUTO7.MES"],
    [sector |-> 72317, size |-> 92, name |-> "MENU/TUTO7.SCR"],
    [sector |-> 193873, size |-> 51961856, name |-> "OPEN/ENDING.XA"],
    [sector |-> 137480, size |-> 29540352, name |-> "OPEN/FFTEND.STR"],
    [sector |-> 97120, size |-> 52871168, name |-> "OPEN/FFTOP.STR"],
    [sector |-> 151904, size |-> 15400960, name |-> "OPEN/FFTPR.STR"],
    [sector |-> 122936, size |-> 29786112, name |-> "OPEN/FFTPRE.STR"],
    [sector |-> 86998, size |-> 20729856, name |-> "OPEN/FFTST.STR"],
    [sector |-> 159424, size |-> 70551552, name |-> "OPEN/FFTUNIT.STR"],
    [sector |-> 86000, size |-> 222832, name |-> "OPEN/OPEN.BIN"],
    [sector |-> 86595, size |-> 825344, name |-> "OPEN/OPNBK.BIN"],
    [sector |-> 86109, size |-> 995328, name |-> "OPEN/OPNTEX.BIN"],
    [sector |-> 198, size |-> 20480, name |-> "SCEAP.DAT"],
    [sector |-> 24, size |-> 356352, name |-> "SCUS_942.21"],
    [sector |-> 23, size |-> 68, name |-> "SYSTEM.CNF"],
    [sector |-> 76025, size |-> 73728, name |-> "WORLD/SNPLBIN.BIN"],
    [sector |-> 76061, size |-> 245760, name |-> "WORLD/SNPLMES.BIN"],
    [sector |-> 76181, size |-> 16097280, name |-> "WORLD/WLDBK.BIN"],
    [sector |-> 84041, size |-> 448808, name |-> "WORLD/WLDCORE.BIN"],
    [sector |-> 73561, size |-> 5046272, name |-> "WORLD/WLDMES.BIN"],
    [sector |-> 73134, size |-> 874496, name |-> "WORLD/WLDPIC.BIN"],
    [sector |-> 73000, size |-> 274432, name |-> "WORLD/WLDTEX.TM2"],
    [sector |-> 84261, size |-> 973144, name |-> "WORLD/WORLD.BIN"]
>>

F_FILE_COUNT == Len(fft_io_file_list)

\* fft_io_get_file_desc whose loop stops one entry early.
fft_io_get_file_desc_short(sector_start) ==
    LET hits == { i \in 1..(F_FILE_COUNT - 1) :
                    fft_io_file_list[i].sector = sector_start }
    IN  IF hits = {}
        THEN [sector |-> 0, size |-> 0, name |-> NULL]
        ELSE fft_io_file_list[CHOOSE i \in hits : \A j \in hits : i <= j]

(* fft_io_get_file_desc: the first entry, in list order, whose sector is   *)
(* sector_start; the zero descriptor when the loop finds none.             *)
fft_io_get_file_desc(sector_start) ==
    LET hits == { i \in 1..F_FILE_COUNT :
                    fft_io_file_list[i].sector = sector_start }
    IN  IF hits = {}
        THEN [sector |-> 0, size |-> 0, name |-> NULL]
        ELSE fft_io_file_list[CHOOSE i \in hits : \A j \in hits : i <= j]

(* The pattern of a disc image at position p.  The image is the program's  *)
(* input; its contents are a family indexed by d.seed in which bytes that  *)
(* are 1, 24, 256, 2048 or 2352 positions apart differ.                    *)
PatternByte(d, p) ==
    ((p % 256) * (2 * d.seed + 1) + ((p \div 256) % 256) * 3
        + ((p \div 2352) % 16) * 5 + d.seed) % 256

\* The raw sector that holds position p, and p's offset in its payload.
SectorOf(p) == p \div FFT_IO_SECTOR_SIZE_RAW

PayloadOffset(p) == (p % FFT_IO_SECTOR_SIZE_RAW) - FFT_IO_SECTOR_HEADER_SIZE

(* The start sectors of the files of the image d whose payload holds       *)
(* position p.  An image may carry files: d.files maps a start sector to   *)
(* the bytes stored in the payload of the sectors from there on.           *)
FilesAt(d, p) ==
    IF "files" \in DOMAIN d
    THEN { s \in DOMAIN d.files :
            /\ s <= SectorOf(p)
            /\ PayloadOffset(p) >= 0
            /\ PayloadOffset(p) < FFT_IO_SECTOR_SIZE
            /\ (SectorOf(p) - s) * FFT_IO_SECTOR_SIZE + PayloadOffset(p)
                  < Len(d.files[s]) }
    ELSE {}

\* The byte at position p of the file of d that starts at sector s.
FileByte(d, s, p) ==
    d.files[s][(SectorOf(p) - s) * FFT_IO_SECTOR_SIZE + PayloadOffset(p) + 1]

\* The byte of the disc image d at position p: a file's, or the pattern's.
DiscByte(d, p) ==
    IF FilesAt(d, p) # {}
    THEN FileByte(d, CHOOSE s \in FilesAt(d, p) : TRUE, p)
    ELSE PatternByte(d, p)

\* seek_to computed without the sector header.
SeekTo_noheader(sector_start, i) ==
    IF sector_start + i <= (Int32Max \div FFT_IO_SECTOR_SIZE_RAW)
    THEN (sector_start + i) * FFT_IO_SECTOR_SIZE_RAW
    ELSE -1

(* seek_to = (int32_t)((sector_start + i) * FFT_IO_SECTOR_SIZE_RAW)        *)
(*           + FFT_IO_SECTOR_HEADER_SIZE.                                   *)
(* The product is a uint32_t; cast to int32_t it is itself while at most   *)
(* INT32_MAX, and negative for the sectors above that, 913046..1826091     *)
(* (every sector the catalog or a 16-bit record sector can name is below). *)
(* A negative seek_to is given as -1: fseek refuses each of them alike.    *)
SeekTo(sector_start, i) ==
    IF sector_start + i <= (Int32Max \div FFT_IO_SECTOR_SIZE_RAW)
    THEN (sector_start + i) * FFT_IO_SECTOR_SIZE_RAW
             + FFT_IO_SECTOR_HEADER_SIZE
    ELSE -1

(* fread(sector, 1, FFT_IO_SECTOR_SIZE, file) at position pos of the disc  *)
(* image d: the bytes that exist from pos on, at most a sector's worth.    *)
Fread(d, pos) ==
    LET rn == Max(0, Min(FFT_IO_SECTOR_SIZE, d.len - pos))
    IN  [k \in 1..rn |-> DiscByte(d, pos + k - 1)]

\* memcpy(bytes + offset, sector, n)
Memcpy(bytes, offset, sector, n) ==
    SubSeq(bytes, 1, offset) \o SubSeq(sector, 1, n)
        \o SubSeq(bytes, offset + n + 1, Len(bytes))

\* ceil(size / (double)FFT_IO_SECTOR_SIZE), exact for a uint32_t size.
OccupiedSectors(size) ==
    IF size % FFT_IO_SECTOR_SIZE = 0
    THEN size \div FFT_IO_SECTOR_SIZE
    ELSE size \div FFT_IO_SECTOR_SIZE + 1

(* The sector loop of fft_io_read from iteration i on: seek, read one      *)
(* sector, copy what is still wanted of it.  reads counts the fread calls  *)
(* made.                                                                   *)
RECURSIVE IoReadLoop(_, _, _, _, _, _, _)
IoReadLoop(d, sector_start, size, i, offset, bytes, reads) ==
    IF ~(i < OccupiedSectors(size))
    THEN [status |-> "running", bytes |-> bytes, reads |-> reads]
    ELSE LET seek_to == SeekTo(sector_start, i)
         IN  IF seek_to < 0
             THEN [status |-> "fatal", bytes |-> bytes, reads |-> reads]
             ELSE LET sector == Fread(d, seek_to)
                      remaining_size == size - offset
                      bytes_to_copy ==
                          IF remaining_size < FFT_IO_SECTOR_SIZE
                          THEN remaining_size ELSE FFT_IO_SECTOR_SIZE
                  IN  IF Len(sector) # FFT_IO_SECTOR_SIZE
                      THEN [status |-> "fatal", bytes |-> bytes,
                            reads |-> reads + 1]
                      ELSE IoReadLoop(d, sector_start, size, i + 1,
                                      offset + bytes_to_copy,
                                      Memcpy(bytes, offset, sector,
                                             bytes_to_copy),
                                      reads + 1)

(* fft_io_read(sector_start, size) on the disc image d with the ledger m:  *)
(* the allocation (tagged with the catalog name when the sector starts a   *)
(* catalog file; calloc zeroes it), the sector loop, and the span, which   *)
(* is returned when status is "running".                                   *)
fft_io_read(d, m, sector_start, size) ==
    LET desc == fft_io_get_file_desc(sector_start)
        tag  == IF desc.sector = 0 /\ desc.size = 0 /\ desc.name = NULL
                THEN NULL ELSE desc.name
        r    == IoReadLoop(d, sector_start, size, 0, 0,
                           [k \in 1..size |-> 0], 0)
    IN  [status |-> r.status,
         reads  |-> r.reads,
         tag    |-> tag,
         mem    |-> fft_mem_alloc(m, size, tag),
         span   |-> [data |-> r.bytes, size |-> size, offset |-> 0]]

---------------------------------------------------------------------------
(* The sector-reader specification: a disc image of some length, then      *)
(* reads and catalog lookups.                                              *)

\* Most payload sectors a modelled read spans.
MaxIoSectors == 2

\* Most fft_io_read calls of a run (the ledger's totals only grow).
MaxIoReads == 1

\* Variants of the disc image's contents.
Seeds == {0, 1}

(* Start sectors read: 0 (no catalog entry) and 1000 (the catalog's        *)
(* BATTLE.BIN).                                                            *)
IoSectors == {0, 1000}

(* Sizes read: every whole number of sectors up to MaxIoSectors, and one   *)
(* byte more.                                                              *)
IoSizes ==
    { q * FFT_IO_SECTOR_SIZE + r : q \in 0..MaxIoSectors, r \in {0, 1} }

(* Image lengths: the image ends in the raw sector k sectors after a start *)
(* sector, at the end of its payload (280 bytes before the sector's end)   *)
(* or one byte before that.                                                *)
PayloadEndGap ==
    FFT_IO_SECTOR_SIZE_RAW - FFT_IO_SECTOR_HEADER_SIZE - FFT_IO_SECTOR_SIZE

DiscLens ==
    { (b + k) * FFT_IO_SECTOR_SIZE_RAW - cut :
        b \in IoSectors, k \in 1..(MaxIoSectors + 1),
        cut \in {PayloadEndGap, PayloadEndGap + 1} }

\* Sectors looked up: every catalog sector, and some that start no file.
LookupSectors ==
    { fft_io_file_list[i].sector : i \in 1..F_FILE_COUNT }
        \cup {0, 1, 999, 1001, 65535, 99999}

InitIo ==
    /\ disc \in [seed : Seeds, len : DiscLens]
    /\ span = NoSpan
    /\ status = "running"
    /\ last = NoCall
    /\ mem = fft_mem_init
    /\ image = NoImage
    /\ clut = NoImage
    /\ map = NoMap
    /\ allocations_head = <<>>

(* A call of fft_io_read(sector_start, size).  The model holds one span   *)
(* at a time: the read is made when the span before it has been closed.    *)
IoRead ==
    /\ status = "running"
    /\ mem.allocations_current = 0
    /\ mem.allocations_total < MaxIoReads
    /\ \E sector_start \in IoSectors, size \in IoSizes :
         LET r == fft_io_read(disc, mem, sector_start, size)
         IN  /\ span' = (IF r.status = "running" THEN r.span ELSE span)
             /\ status' = r.status
             /\ mem' = r.mem
             /\ last' = [op |-> "fft_io_read", sector_start |-> sector_start,
                         size |-> size, reads |-> r.reads, tag |-> r.tag]
    /\ UNCHANGED <<disc, image, clut, map, allocations_head>>

\* A call of fft_io_get_file_desc(sector_start).
IoGetFileDesc ==
    /\ status = "running"
    /\ \E sector_start \in LookupSectors :
         last' = [op |-> "fft_io_get_file_desc",
                  sector_start |-> sector_start,
                  desc |-> fft_io_get_file_desc(sector_start)]
    /\ UNCHANGED <<span, status, disc, mem, image, clut, map, allocations_head>>

\* A call of fft_io_close(span) on the span the last read returned.
IoClose ==
    /\ status = "running"
    /\ mem.allocations_current > 0
    /\ mem' = fft_mem_free(mem, span.size)
    /\ span' = NoSpan
    /\ last' = [op |-> "fft_io_close"]
    /\ UNCHANGED <<status, disc, image, clut, map, allocations_head>>

NextIo == IoRead \/ IoClose

SpecIo == InitIo /\ [][NextIo]_vars

\* The catalog specification: lookups by start sector.
InitCatalog ==
    /\ disc = NoDisc
    /\ span = NoSpan
    /\ status = "running"
    /\ last = NoCall
    /\ mem = fft_mem_init
    /\ image = NoImage
    /\ clut = NoImage
    /\ map = NoMap
    /\ allocations_head = <<>>

NextCatalog == IoGetFileDesc

SpecCatalog == InitCatalog /\ [][NextCatalog]_vars

---------------------------------------------------------------------------
(* Claims about the sector reader.                                         *)

\* The image has all 2048 payload bytes of raw sector s.
SectorWhole(s) ==
    (s * FFT_IO_SECTOR_SIZE_RAW + FFT_IO_SECTOR_HEADER_SIZE)
        + FFT_IO_SECTOR_SIZE <= disc.len

\* ceil(n / 2048), by rounding up the quotient.
CeilSectors(n) == (n + FFT_IO_SECTOR_SIZE - 1) \div FFT_IO_SECTOR_SIZE

(* C4: fft_io_read(sector, length) returns a span of size exactly length   *)
(* with offset 0 whose byte k, for every 0 <= k < length, equals the       *)
(* disc-image byte at position (sector + k div 2048) * 2352 + 24 +         *)
(* (k mod 2048); it reads exactly ceil(length / 2048) sectors and is fatal *)
(* if any sector read yields fewer than 2048 bytes.                        *)
C4_IoRead ==
    last.op = "fft_io_read" =>
        LET sector == last.sector_start
            length == last.size
            short  == { i \in 0..(CeilSectors(length) - 1) :
                          ~SectorWhole(sector + i) }
        IN  IF short = {}
            THEN /\ status = "running"
                 /\ span.size = length
                 /\ span.offset = 0
                 /\ Len(span.data) = length
                 /\ \A k \in 0..(length - 1) :
                        span.data[k + 1] =
                            DiscByte(disc, (sector + k \div 2048) * 2352 + 24
                                               + (k % 2048))
                 /\ last.reads = CeilSectors(length)
            ELSE /\ status = "fatal"
                 /\ span = NoSpan

(* C4's case: a read that ends inside its third sector has returned, from  *)
(* a start sector other than 0.                                            *)
C4_Witness ==
    /\ last.op = "fft_io_read"
    /\ status = "running"
    /\ last.sector_start = 1000
    /\ last.size = 2 * FFT_IO_SECTOR_SIZE + 1
    /\ last.reads = 3
    /\ span.data[last.size] = DiscByte(disc, 1002 * 2352 + 24)

\* The sentinel fft_io_get_file_desc returns for a sector that starts no file.
NotFound == [sector |-> 0, size |-> 0, name |-> NULL]

(* C5: fft_io_get_file_desc(s) returns the catalog entry whose start       *)
(* sector equals s when the catalog has one, and for any s that is the     *)
(* start sector of no catalog entry returns the not-found sentinel (sector *)
(* 0, size 0, null name) without failing.                                  *)
C5_FileDesc ==
    last.op = "fft_io_get_file_desc" =>
        /\ status = "running"
        /\ \A i \in 1..F_FILE_COUNT :
               fft_io_file_list[i].sector = last.sector_start
                   => last.desc = fft_io_file_list[i]
        /\ (\A i \in 1..F_FILE_COUNT :
               fft_io_file_list[i].sector # last.sector_start)
                   => last.desc = NotFound

(* C5's cases: the last catalog entry has been found by its sector, and,   *)
(* in another state, sector 99999 has given the sentinel (src/test.c).     *)
C5_Witness ==
    /\ last.op = "fft_io_get_file_desc"
    /\ \/ /\ last.sector_start = fft_io_file_list[F_FILE_COUNT].sector
          /\ last.desc.name = "WORLD/WORLD.BIN"
       \/ /\ last.sector_start = 99999
          /\ last.desc = NotFound

---------------------------------------------------------------------------
(* Map state and GNS/Records Implementation.                               *)

FFT_TIME_DAY == 0

FFT_TIME_NIGHT == 1

FFT_WEATHER_NONE == 0

FFT_WEATHER_NONE_ALT == 1

FFT_WEATHER_NORMAL == 2

FFT_WEATHER_STRONG == 3

FFT_WEATHER_VERY_STRONG == 4

\* Maximum number of records per map.
FFT_RECORD_MAX == 40

\* Size of a record in bytes.
FFT_RECORD_SIZE == 20

\* 0x1701
FFT_RECORDTYPE_TEXTURE == 5889

\* 0x2E01
FFT_RECORDTYPE_MESH_PRIMARY == 11777

\* 0x3101, the end of file marker.
FFT_RECORDTYPE_END == 12545

\* fft_record_meta_t as a designated initialiser that omits it leaves it.
ZeroMeta ==
    [has_geometry |-> FALSE, has_clut |-> FALSE, has_lighting |-> FALSE,
     has_terrain |-> FALSE, polygon_count |-> 0, tex_tri_count |-> 0,
     tex_quad_count |-> 0, untex_tri_count |-> 0, untex_quad_count |-> 0,
     light_count |-> 0]

(* The reads of the types in names, in order, from s: the values read and  *)
(* the span after them, or "fatal" from the first read that asserts (the   *)
(* reads after it are not made).                                           *)
RECURSIVE SpanReadSeq(_, _, _)
SpanReadSeq(s, names, values) ==
    IF names = <<>>
    THEN [status |-> "running", values |-> values, span |-> s]
    ELSE LET r == fft_span_read(Head(names), s)
         IN  IF r.status # "running"
             THEN [status |-> r.status, values |-> values, span |-> r.span]
             ELSE SpanReadSeq(r.span, Tail(names), Append(values, r.value))

\* The field reads of fft_record_read, in its order.
RecordFieldTypes ==
    <<"u16", "u8", "u8", "u16", "u16", "u16", "u16", "u32", "u16", "u16">>

\* The time bit taken from bit 6.
RecordTime_bit6(time_and_weather) == MaskLow(Shr(time_and_weather, 6), 1)

\* (fft_time_e)((time_and_weather >> 7) & 0x1)
RecordTime(time_and_weather) == MaskLow(Shr(time_and_weather, 7), 1)

\* (fft_weather_e)((time_and_weather >> 4) & 0x7)
RecordWeather(time_and_weather) == MaskLow(Shr(time_and_weather, 4), 3)

\* A roll-back that is two bytes short.
RecordRollback_short(s) == [s EXCEPT !.offset = @ - (FFT_RECORD_SIZE - 2)]

\* span->offset -= FFT_RECORD_SIZE
RecordRollback(s) == [s EXCEPT !.offset = @ - FFT_RECORD_SIZE]

(* fft_record_read: the ten field reads, the split of the time and weather *)
(* byte, the record, then the roll-back and the raw copy.  The result is   *)
(* the set of outcomes (fft_span_read_bytes has several when it runs over  *)
(* the buffer's end).                                                      *)
fft_record_read(s) ==
    LET f == SpanReadSeq(s, RecordFieldTypes, <<>>)
    IN  IF f.status # "running"
        THEN {[status |-> f.status, record |-> NoValue, span |-> f.span]}
        ELSE LET unknown_aa       == f.values[1]
                 layout           == f.values[2]
                 time_and_weather == f.values[3]
                 type             == f.values[4]
                 unknown_ee       == f.values[5]
                 sector           == f.values[6]
                 unknown_gg       == f.values[7]
                 length           == f.values[8]
                 unknown_ii       == f.values[9]
                 unknown_jj       == f.values[10]
                 record(raw) ==
                     [type |-> type, sector |-> sector, length |-> length,
                      state |-> [time |-> RecordTime(time_and_weather),
                                 weather |-> RecordWeather(time_and_weather),
                                 layout |-> layout],
                      unknown_aa |-> unknown_aa, unknown_ee |-> unknown_ee,
                      unknown_gg |-> unknown_gg, unknown_ii |-> unknown_ii,
                      unknown_jj |-> unknown_jj,
                      raw |-> raw, meta |-> ZeroMeta]
             IN  { IF b.status # "running"
                   THEN [status |-> b.status, record |-> NoValue,
                         span |-> b.span]
                   ELSE [status |-> "running", record |-> record(b.out.bytes),
                         span |-> b.span]
                     : b \in fft_span_read_bytes(RecordRollback(f.span),
                                                 FFT_RECORD_SIZE) }

(* The state of fft_record_read_all's loop: the status, the span, the     *)
(* elements stored (out_records is the sequence of them in index order:    *)
(* the store is at index count, the sequence's length), count, and done:   *)
(* the loop has been left.                                                 *)
RecordReadAllStart(s) ==
    [status |-> "running", span |-> s, out_records |-> <<>>, count |-> 0,
     done |-> FALSE]

\* A pass of the loop with the end check after the store.
RecordReadAllStep_late(st) ==
    IF st.done
    THEN {st}
    ELSE IF ~(st.span.offset + FFT_RECORD_SIZE < st.span.size)
    THEN {[st EXCEPT !.done = TRUE]}
    ELSE { CASE r.status # "running" ->
                  [st EXCEPT !.status = r.status, !.span = r.span,
                             !.done = TRUE]
             [] r.status = "running" /\ st.count >= FFT_RECORD_MAX ->
                  [st EXCEPT !.span = r.span, !.done = TRUE]
             [] r.status = "running" /\ st.count < FFT_RECORD_MAX
                  /\ r.record.type = FFT_RECORDTYPE_END ->
                  [st EXCEPT !.span = r.span,
                             !.out_records = Append(@, r.record),
                             !.count = @ + 1, !.done = TRUE]
             [] OTHER ->
                  [st EXCEPT !.span = r.span,
                             !.out_records = Append(@, r.record),
                             !.count = @ + 1]
             : r \in fft_record_read(st.span) }

(* A pass of fft_record_read_all's loop on the loop state st: while more   *)
(* than FFT_RECORD_SIZE bytes remain, read a record; leave on the end      *)
(* marker; leave when FFT_RECORD_MAX are stored; store it at               *)
(* out_records[count++].  A state that has left the loop stays as it is.   *)
(* The result is the set of states the pass can end in.                    *)
RecordReadAllStep(st) ==
    IF st.done
    THEN {st}
    ELSE IF ~(st.span.offset + FFT_RECORD_SIZE < st.span.size)
    THEN {[st EXCEPT !.done = TRUE]}
    ELSE { CASE r.status # "running" ->
                  [st EXCEPT !.status = r.status, !.span = r.span,
                             !.done = TRUE]
             [] r.status = "running"
                  /\ r.record.type = FFT_RECORDTYPE_END ->
                  [st EXCEPT !.span = r.span, !.done = TRUE]
             [] r.status = "running"
                  /\ r.record.type # FFT_RECORDTYPE_END
                  /\ st.count >= FFT_RECORD_MAX ->
                  [st EXCEPT !.span = r.span, !.done = TRUE]
             [] OTHER ->
                  [st EXCEPT !.span = r.span,
                             !.out_records = Append(@, r.record),
                             !.count = @ + 1]
             : r \in fft_record_read(st.span) }

\* n >= 1 passes of the loop from each of the states sts, in two halves.
RECURSIVE RecordReadAllPasses(_, _)
RecordReadAllPasses(sts, n) ==
    IF n = 1
    THEN UNION { RecordReadAllStep(st) : st \in sts }
    ELSE RecordReadAllPasses(RecordReadAllPasses(sts, n \div 2),
                             n - n \div 2)

(* The loop from the states sts on: passes (n of them, then 2n, ...) until *)
(* every state has left the loop.                                          *)
RECURSIVE RecordReadAllLoop(_, _)
RecordReadAllLoop(sts, n) ==
    IF \A st \in sts : st.done
    THEN sts
    ELSE RecordReadAllLoop(RecordReadAllPasses(sts, n), 2 * n)

(* fft_record_read_all(span, out_records): count starts at 0; the SET of   *)
(* [status, span, out_records, count] the call can end in.                 *)
fft_record_read_all(s) ==
    { [status |-> st.status, span |-> st.span,
       out_records |-> st.out_records, count |-> st.count]
        : st \in RecordReadAllLoop({RecordReadAllStart(s)}, 1) }

---------------------------------------------------------------------------
(* The directory specification: a GNS directory span, then                 *)
(* fft_record_read_all on it as fft_io_open returned it, or a run of       *)
(* fft_record_read calls.                                                  *)

\* Most 20-byte slots of a modelled directory (two past FFT_RECORD_MAX).
MaxSlots == 42

(* Values of the time and weather byte: every weather field 0..7 with the  *)
(* time bit clear, 0x90 (src/test.c), and values with the low nibble or    *)
(* every bit set.                                                          *)
TwVals == {0, 16, 32, 48, 64, 80, 96, 112, 144, 95, 255}

\* A texture record whose byte 3 is tw; its 20 bytes differ pairwise but for tw.
TextureSlot(tw) ==
    <<34, 1, 2, tw, 1, 23, 225, 226, 52, 18, 97, 98, 3, 4, 5, 6,
      145, 146, 161, 162>>

\* A primary-mesh record of state night, none-alt (0x90), layout 7.
MeshSlot ==
    <<112, 11, 7, 144, 1, 46, 227, 228, 255, 254, 99, 100, 120, 86, 52, 146,
      147, 148, 163, 164>>

\* A record of type FFT_RECORDTYPE_END (01 31 at bytes 4 and 5).
EndSlot ==
    <<34, 0, 0, 0, 1, 49, 0, 0, 0, 0, 0, 0, 0, 0, 0, 0, 0, 0, 0, 0>>

RECURSIVE Concat(_)
Concat(ss) ==
    IF Len(ss) = 0 THEN <<>>
    ELSE IF Len(ss) = 1 THEN ss[1]
    ELSE Concat(SubSeq(ss, 1, Len(ss) \div 2))
            \o Concat(SubSeq(ss, Len(ss) \div 2 + 1, Len(ss)))

(* A directory of n slots, slot j (if any) the end marker, the others      *)
(* texture and mesh records in turn, followed by tail zero bytes.          *)
Directory(n, j, tail, tw) ==
    Concat([i \in 1..n |->
              IF i - 1 = j THEN EndSlot
              ELSE IF (i - 1) % 2 = 0 THEN TextureSlot(tw) ELSE MeshSlot])
        \o [k \in 1..tail |-> 0]

\* Where the end marker is put: nowhere (-1), or near either end or the limit.
EndPlaces(n) == {-1} \cup ({0, 1, n - 2, n - 1, 39, 40, 41} \cap (0..(n - 1)))

InitRecord ==
    /\ \E n \in 0..MaxSlots, tail \in {0, 7}, tw \in TwVals :
         \E j \in EndPlaces(n) :
            span = [data |-> Directory(n, j, tail, tw),
                    size |-> n * FFT_RECORD_SIZE + tail, offset |-> 0]
    /\ status = "running"
    /\ last = NoCall
    /\ disc = NoDisc
    /\ mem = fft_mem_init
    /\ image = NoImage
    /\ clut = NoImage
    /\ map = NoMap
    /\ allocations_head = <<>>

\* A call of fft_record_read(&span).
RecordRead ==
    /\ status = "running"
    /\ \E r \in fft_record_read(span) :
         /\ span' = r.span
         /\ status' = r.status
         /\ last' = [op |-> "fft_record_read", pre |-> span.offset,
                     record |-> r.record]
    /\ UNCHANGED <<disc, mem, image, clut, map, allocations_head>>

\* A call of fft_record_read_all(&span, records) on a span just opened.
RecordReadAll ==
    /\ status = "running"
    /\ last = NoCall
    /\ \E r \in fft_record_read_all(span) :
         /\ span' = r.span
         /\ status' = r.status
         /\ last' = [op |-> "fft_record_read_all", pre |-> span.offset,
                     out_records |-> r.out_records, count |-> r.count]
    /\ UNCHANGED <<disc, mem, image, clut, map, allocations_head>>

NextRecord == RecordRead \/ RecordReadAll

SpecRecord == InitRecord /\ [][NextRecord]_vars

---------------------------------------------------------------------------
(* Claims about the directory decoder.                                     *)

\* The whole 20-byte slots of the directory, and slot i's bytes and type.
FullSlots == span.size \div FFT_RECORD_SIZE

SlotBytes(i) ==
    SubSeq(span.data, i * FFT_RECORD_SIZE + 1, (i + 1) * FFT_RECORD_SIZE)

SlotType(i) == SlotBytes(i)[5] + 256 * SlotBytes(i)[6]

\* The slots that hold an end-sentinel record, and the first of them.
EndSlots == { i \in 0..(FullSlots - 1) : SlotType(i) = FFT_RECORDTYPE_END }

FirstEnd == CHOOSE i \in EndSlots : \A k \in EndSlots : i <= k

(* C6: fft_record_read_all stops decoding at the first of: a record whose  *)
(* type is the end sentinel, 40 records produced, or fewer than 20 bytes   *)
(* remaining in the span; so a directory of exactly k*20 bytes (k <= 40)   *)
(* that contains no sentinel record yields all k records.                  *)
C6_StopRule ==
    last.op = "fft_record_read_all" =>
        /\ status = "running"
        /\ last.count =
              Min(FFT_RECORD_MAX,
                  IF EndSlots = {} THEN FullSlots ELSE FirstEnd)
        /\ (/\ EndSlots = {}
            /\ span.size = FullSlots * FFT_RECORD_SIZE
            /\ FullSlots <= FFT_RECORD_MAX) => last.count = FullSlots

(* C7: for every directory byte span, fft_record_read_all returns a count  *)
(* <= 40, writes only out_records[0 .. count-1], and its output is exactly *)
(* the records that precede the first end-sentinel record (the first 40 of *)
(* them, by the bound on count): the sentinel record itself is not output  *)
(* and no record after it is parsed.                                       *)
C7_OutputBeforeSentinel ==
    last.op = "fft_record_read_all" =>
        /\ status = "running"
        /\ last.count <= FFT_RECORD_MAX
        /\ Len(last.out_records) = last.count
        /\ \A i \in 0..(last.count - 1) :
              /\ last.out_records[i + 1].raw = SlotBytes(i)
              /\ last.out_records[i + 1].type = SlotType(i)
              /\ last.out_records[i + 1].type # FFT_RECORDTYPE_END
        /\ EndSlots # {} =>
              /\ last.count = Min(FFT_RECORD_MAX, FirstEnd)
              /\ span.offset <= (FirstEnd + 1) * FFT_RECORD_SIZE

(* C7's case: the sentinel was met after at least one record and with      *)
(* records behind it, which stay unparsed.                                 *)
C7_Witness ==
    /\ last.op = "fft_record_read_all"
    /\ EndSlots # {}
    /\ FirstEnd >= 1
    /\ FirstEnd + 2 <= FullSlots
    /\ last.count = FirstEnd
    /\ span.offset = (FirstEnd + 1) * FFT_RECORD_SIZE

(* C8: fft_record_read decodes a 20-byte record b[0..19] as: layout =      *)
(* b[2], time = bit 7 of b[3], weather = bits 4-6 of b[3], type =          *)
(* little-endian u16 at b[4..5], sector = little-endian u16 at b[8..9]     *)
(* widened to 32 bits, length = little-endian u32 at b[12..15]; for b[3] = *)
(* 0x90 this gives time NIGHT and weather NONE_ALT.                        *)
C8_RecordFields ==
    (last.op = "fft_record_read" /\ status = "running") =>
        LET b == BytesAt(last.pre, FFT_RECORD_SIZE)
            r == last.record
        IN  /\ r.state.layout = b[3]
            /\ r.state.time = b[4] \div 128
            /\ r.state.weather = (b[4] \div 16) % 8
            /\ r.type = b[5] + 256 * b[6]
            /\ r.sector = b[9] + 256 * b[10]
            /\ r.length = [lo |-> b[13] + 256 * b[14],
                           hi |-> b[15] + 256 * b[16]]
            /\ b[4] = 144 => /\ r.state.time = FFT_TIME_NIGHT
                             /\ r.state.weather = FFT_WEATHER_NONE_ALT

\* C8's case: a record whose byte 3 is 0x90 has been decoded.
C8_Witness ==
    /\ last.op = "fft_record_read"
    /\ status = "running"
    /\ BytesAt(last.pre, FFT_RECORD_SIZE)[4] = 144
    /\ last.record.state =
          [time |-> FFT_TIME_NIGHT, weather |-> FFT_WEATHER_NONE_ALT,
           layout |-> 7]
    /\ last.record.length = [lo |-> 22136, hi |-> 37428]

(* C9: every record produced by fft_record_read, for any 20 input bytes,   *)
(* has state.time in {DAY, NIGHT} and state.weather in the five named      *)
(* values {NONE, NONE_ALT, NORMAL, STRONG, VERY_STRONG} (0..4).            *)
C9_StateInEnum ==
    (last.op = "fft_record_read" /\ status = "running") =>
        /\ last.record.state.time \in {FFT_TIME_DAY, FFT_TIME_NIGHT}
        /\ last.record.state.weather \in
              {FFT_WEATHER_NONE, FFT_WEATHER_NONE_ALT, FFT_WEATHER_NORMAL,
               FFT_WEATHER_STRONG, FFT_WEATHER_VERY_STRONG}

(* C10: each call of fft_record_read leaves the cursor exactly 20 bytes    *)
(* past where the call started, and record.raw equals those same 20 bytes  *)
(* verbatim: the roll-back and re-read neither skips nor double-consumes   *)
(* input, so consecutive records are read from consecutive 20-byte slots.  *)
C10_RawAndCursor ==
    /\ (last.op = "fft_record_read" /\ last.pre + FFT_RECORD_SIZE <= span.size)
          => /\ status = "running"
             /\ span.offset = last.pre + FFT_RECORD_SIZE
             /\ last.record.raw = BytesAt(last.pre, FFT_RECORD_SIZE)
    /\ last.op = "fft_record_read_all"
          => /\ status = "running"
             /\ \A i \in 0..(last.count - 1) :
                   last.out_records[i + 1].raw = SlotBytes(i)

\* C10's case: the second of two consecutive reads has returned slot 1.
C10_Witness ==
    /\ last.op = "fft_record_read"
    /\ status = "running"
    /\ last.pre = FFT_RECORD_SIZE
    /\ span.offset = 2 * FFT_RECORD_SIZE
    /\ last.record.raw = MeshSlot

---------------------------------------------------------------------------
(* Colors Implementation.                                                  *)

\* x << n
Shl(x, n) == x * Pow2(n)

\* a & b on non-negative values.
RECURSIVE BitAnd(_, _)
BitAnd(a, b) ==
    IF a = 0 \/ b = 0 THEN 0
    ELSE (a % 2) * (b % 2) + 2 * BitAnd(a \div 2, b \div 2)

\* a | b on non-negative values.
RECURSIVE BitOr(_, _)
BitOr(a, b) ==
    IF a = 0 THEN b
    ELSE IF b = 0 THEN a
    ELSE Max(a % 2, b % 2) + 2 * BitOr(a \div 2, b \div 2)

\* (uint8_t)x for a non-negative x
U8(x) == x % 256

\* (raw & 0xF0) >> 4
fft_color_4bpp_left(raw) == Shr(BitAnd(raw, 240), 4)

\* fft_color_4bpp_right taking the high nibble.
fft_color_4bpp_right_high(raw) == Shr(BitAnd(raw, 240), 4)

\* raw & 0x0F
fft_color_4bpp_right(raw) == BitAnd(raw, 15)

\* The red channel scaled linearly: (c & 0x1F) << 3 without the low bits.
fft_color_5551_r8_linear(c) == U8(Shl(BitAnd(c, 31), 3))

\* (uint8_t)(((c & 0x1F) << 3) | ((c & 0x1F) >> 2))
fft_color_5551_r8(c) ==
    U8(BitOr(Shl(BitAnd(c, 31), 3), Shr(BitAnd(c, 31), 2)))

\* (uint8_t)((((c >> 5) & 0x1F) << 3) | (((c >> 5) & 0x1F) >> 2))
fft_color_5551_g8(c) ==
    U8(BitOr(Shl(BitAnd(Shr(c, 5), 31), 3), Shr(BitAnd(Shr(c, 5), 31), 2)))

\* (uint8_t)((((c >> 10) & 0x1F) << 3) | (((c >> 10) & 0x1F) >> 2))
fft_color_5551_b8(c) ==
    U8(BitOr(Shl(BitAnd(Shr(c, 10), 31), 3), Shr(BitAnd(Shr(c, 10), 31), 2)))

\* (uint8_t)(((c >> 15) & 0x01) ? 255 : 0)
fft_color_5551_a8(c) == U8(IF BitAnd(Shr(c, 15), 1) # 0 THEN 255 ELSE 0)

(* FFT_COLOR_RGBA(r, g, b, a): the uint32_t                                *)
(* (a & 0xFF) << 24 | (b & 0xFF) << 16 | (g & 0xFF) << 8 | (r & 0xFF),     *)
(* as its two halves.                                                      *)
FFT_COLOR_RGBA(r, g, b, a) ==
    [hi |-> BitOr(Shl(BitAnd(a, 255), 8), BitAnd(b, 255)),
     lo |-> BitOr(Shl(BitAnd(g, 255), 8), BitAnd(r, 255))]

(* fft_color_from_5551: its own copy of the channel expressions, where the *)
(* cast to uint8_t applies to the left shift alone and the assignment to   *)
(* a uint8_t truncates the whole; alpha tests c >> 15.                     *)
fft_color_from_5551(c) ==
    LET r == U8(BitOr(U8(Shl(BitAnd(c, 31), 3)), Shr(BitAnd(c, 31), 2)))
        g == U8(BitOr(U8(Shl(BitAnd(Shr(c, 5), 31), 3)),
                      Shr(BitAnd(Shr(c, 5), 31), 2)))
        b == U8(BitOr(U8(Shl(BitAnd(Shr(c, 10), 31), 3)),
                      Shr(BitAnd(Shr(c, 10), 31), 2)))
        a == U8(IF Shr(c, 15) # 0 THEN 255 ELSE 0)
    IN  FFT_COLOR_RGBA(r, g, b, a)

---------------------------------------------------------------------------
(* The colour specification: one conversion of any packed colour.          *)

\* Every value of fft_color_5551_t (uint16_t).
Colors5551 == 0..65535

InitColor ==
    /\ span = NoSpan
    /\ status = "running"
    /\ last = NoCall
    /\ disc = NoDisc
    /\ mem = fft_mem_init
    /\ image = NoImage
    /\ clut = NoImage
    /\ map = NoMap
    /\ allocations_head = <<>>

\* Calls of fft_color_5551_r8, _g8, _b8 and _a8 on one colour.
Color5551Channels ==
    /\ last = NoCall
    /\ \E c \in Colors5551 :
         last' = [op |-> "fft_color_5551", c |-> c,
                  r8 |-> fft_color_5551_r8(c), g8 |-> fft_color_5551_g8(c),
                  b8 |-> fft_color_5551_b8(c), a8 |-> fft_color_5551_a8(c)]
    /\ UNCHANGED <<span, status, disc, mem, image, clut, map, allocations_head>>

\* A call of fft_color_from_5551(c).
ColorFrom5551 ==
    /\ last = NoCall
    /\ \E c \in Colors5551 :
         last' = [op |-> "fft_color_from_5551", c |-> c,
                  value |-> fft_color_from_5551(c)]
    /\ UNCHANGED <<span, status, disc, mem, image, clut, map, allocations_head>>

NextColor == Color5551Channels \/ ColorFrom5551

SpecColor == InitColor /\ [][NextColor]_vars

---------------------------------------------------------------------------
(* Claims about the colour conversions.                                    *)

(* The 8-bit value the claims give a 5-bit channel: (c5 << 3) | (c5 >> 2), *)
(* two bit fields that do not overlap, hence their sum.                    *)
Expand5(c5) == 8 * c5 + c5 \div 4

\* The 5-bit channel of c at bits 5k .. 5k+4, and the flag at bit 15.
Channel5(c, k) == (c \div (32 ^ k)) % 32

AlphaOf(c) == IF c >= 32768 THEN 255 ELSE 0

(* C11: for every 16-bit packed colour c, fft_color_5551_r8, _g8 and _b8   *)
(* return (c5 << 3) | (c5 >> 2) for the 5-bit channel c5 at bits 0-4, 5-9  *)
(* and 10-14, fft_color_5551_a8 returns 255 if bit 15 is set and 0         *)
(* otherwise, and fft_color_from_5551 packs exactly these four values as   *)
(* R, G, B, A (R in the lowest byte).                                      *)
C11_PackedColour ==
    /\ last.op = "fft_color_5551" =>
          /\ last.r8 = Expand5(Channel5(last.c, 0))
          /\ last.g8 = Expand5(Channel5(last.c, 1))
          /\ last.b8 = Expand5(Channel5(last.c, 2))
          /\ last.a8 = AlphaOf(last.c)
    /\ last.op = "fft_color_from_5551" =>
          /\ last.value.lo % 256 = Expand5(Channel5(last.c, 0))
          /\ last.value.lo \div 256 = Expand5(Channel5(last.c, 1))
          /\ last.value.hi % 256 = Expand5(Channel5(last.c, 2))
          /\ last.value.hi \div 256 = AlphaOf(last.c)

\* C11's case: 0x801F (red 31, alpha set) has been packed as FF 00 00 FF.
C11_Witness ==
    /\ last.op = "fft_color_from_5551"
    /\ last.c = 32799
    /\ last.value = [hi |-> 65280, lo |-> 255]

---------------------------------------------------------------------------
(* Images Implementation.                                                  *)

\* Each palette row holds 16 colours of 4 bytes (RGBA).
FFT_IMAGE_PAL_COL_COUNT == 16

FFT_IMAGE_PAL_ROW_SIZE == FFT_IMAGE_PAL_COL_COUNT * 4

\* A buffer of n bytes as calloc returns it.
Zeros(n) == [k \in 1..n |-> 0]

\* fft_color_4bpp_read: one byte, two pixels.
fft_color_4bpp_read(s) == fft_span_read("u8", s)

(* The loop of fft_image_read_4bpp from source byte i on: read one byte,   *)
(* store its right pixel four times, then its left pixel four times.       *)
(* written are the bytes data[0 .. write_idx - 1] stored so far.           *)
RECURSIVE Read4bppLoop(_, _, _, _)
Read4bppLoop(s, size_on_disk, i, written) ==
    IF ~(i < size_on_disk)
    THEN [status |-> "running", span |-> s, written |-> written]
    ELSE LET r == fft_color_4bpp_read(s)
         IN  IF r.status # "running"
             THEN [status |-> r.status, span |-> r.span, written |-> written]
             ELSE LET right == fft_color_4bpp_right(r.value)
                      left  == fft_color_4bpp_left(r.value)
                  IN  Read4bppLoop(r.span, size_on_disk, i + 1,
                          written \o <<right, right, right, right,
                                       left, left, left, left>>)

(* fft_image_read_4bpp(span, width, height): the buffer is allocated       *)
(* (zeroed) before the loop; the bytes the loop does not store stay zero.  *)
(* The result: status, the image returned (NoImage when the process ended  *)
(* in the loop), the span and the ledger.                                  *)
fft_image_read_4bpp(s, m, width, height) ==
    LET dims         == width * height
        size         == dims * 4
        size_on_disk == dims \div 2
        m1           == fft_mem_alloc(m, size, NULL)
        l            == Read4bppLoop(s, size_on_disk, 0, <<>>)
    IN  IF l.status # "running"
        THEN [status |-> l.status, image |-> NoImage, span |-> l.span,
              mem |-> m1]
        ELSE [status |-> "running",
              image  |-> [width |-> width, height |-> height, size |-> size,
                          data |-> [ptr |-> "heap",
                                    bytes |-> l.written
                                       \o Zeros(size - Len(l.written))],
                          valid |-> TRUE],
              span   |-> l.span, mem |-> m1]

(* The loop of fft_image_read_16bpp from pixel i on: read a u16 and store  *)
(* (val & 0x001F) << 3, (val & 0x03E0) >> 2, (val & 0x7C00) >> 7 and       *)
(* (val == 0) ? 0x00 : 0xFF, each cast to uint8_t.                         *)
RECURSIVE Read16bppLoop(_, _, _, _)
Read16bppLoop(s, dims, i, written) ==
    IF ~(i < dims)
    THEN [status |-> "running", span |-> s, written |-> written]
    ELSE LET r == fft_span_read("u16", s)
         IN  IF r.status # "running"
             THEN [status |-> r.status, span |-> r.span, written |-> written]
             ELSE LET val == r.value
                  IN  Read16bppLoop(r.span, dims, i + 1,
                          written \o <<U8(Shl(BitAnd(val, 31), 3)),
                                       U8(Shr(BitAnd(val, 992), 2)),
                                       U8(Shr(BitAnd(val, 31744), 7)),
                                       U8(IF val = 0 THEN 0 ELSE 255)>>)

\* fft_image_read_16bpp(span, width, height)
fft_image_read_16bpp(s, m, width, height) ==
    LET dims == width * height
        size == dims * 4
        m1   == fft_mem_alloc(m, size, NULL)
        l    == Read16bppLoop(s, dims, 0, <<>>)
    IN  IF l.status # "running"
        THEN [status |-> l.status, image |-> NoImage, span |-> l.span,
              mem |-> m1]
        ELSE [status |-> "running",
              image  |-> [width |-> width, height |-> height, size |-> size,
                          data |-> [ptr |-> "heap", bytes |-> l.written],
                          valid |-> TRUE],
              span   |-> l.span, mem |-> m1]

(* The loop of fft_image_palettize from byte i on (i = 0, 4, 8, ...):      *)
(* pixel = data[i], the assertion pixel < 16, then the four bytes of the   *)
(* palette at pal_offset + pixel * 4 copied over data[i .. i + 3].         *)
RECURSIVE PalettizeLoop(_, _, _, _, _)
PalettizeLoop(bytes, pal, pal_offset, pixel_count, i) ==
    IF ~(i < pixel_count * 4)
    THEN [status |-> "running", bytes |-> bytes]
    ELSE LET pixel == bytes[i + 1]
         IN  IF ~(pixel < FFT_IMAGE_PAL_COL_COUNT)
             THEN [status |-> "fatal", bytes |-> bytes]
             ELSE PalettizeLoop(
                      SubSeq(bytes, 1, i)
                          \o SubSeq(pal, pal_offset + pixel * 4 + 1,
                                    pal_offset + pixel * 4 + 4)
                          \o SubSeq(bytes, i + 5, Len(bytes)),
                      pal, pal_offset, pixel_count, i + 4)

\* The bank's offset computed from the colour count, not the row's bytes.
PalOffset_cols(pal_index) == FFT_IMAGE_PAL_COL_COUNT * pal_index

\* pal_offset = FFT_IMAGE_PAL_ROW_SIZE * pal_index
PalOffset(pal_index) == FFT_IMAGE_PAL_ROW_SIZE * pal_index

(* fft_image_palettize(image, clut, pal_index): the two parameter          *)
(* assertions, the assertion on the bank, then the loop.  The result is    *)
(* the status and the image as the call leaves it.                         *)
fft_image_palettize(img, pal, pal_index) ==
    IF ~(img.data.ptr # NULL /\ img.valid)
    THEN [status |-> "fatal", image |-> img]
    ELSE IF ~(pal.data.ptr # NULL /\ pal.valid)
    THEN [status |-> "fatal", image |-> img]
    ELSE LET pixel_count == img.width * img.height
             pal_offset  == PalOffset(pal_index)
         IN  IF ~(pal_offset + (FFT_IMAGE_PAL_COL_COUNT * 4) <= pal.size)
             THEN [status |-> "fatal", image |-> img]
             ELSE LET l == PalettizeLoop(img.data.bytes, pal.data.bytes,
                                         pal_offset, pixel_count, 0)
                  IN  [status |-> l.status,
                       image  |-> [img EXCEPT !.data.bytes = l.bytes]]

(* fft_image_read_4bpp_palettized(span, desc, pal_index), last to first    *)
(* step.  r1 is the outcome of the image read, r2 that of the palette      *)
(* read, p that of fft_image_palettize, so that of the seek.               *)

\* FFT_MEM_FREE(clut.data); return image
PalettizedReturn(r2, p) ==
    IF p.status # "running"
    THEN [status |-> p.status, image |-> NoImage, span |-> r2.span,
          mem |-> r2.mem]
    ELSE [status |-> "running", image |-> p.image, span |-> r2.span,
          mem |-> fft_mem_free(r2.mem, r2.image.size)]

\* fft_image_palettize(&image, &clut, pal_index)
PalettizedApply(r1, r2, pal_index) ==
    IF r2.status # "running"
    THEN [status |-> r2.status, image |-> NoImage, span |-> r2.span,
          mem |-> r2.mem]
    ELSE PalettizedReturn(r2,
             fft_image_palettize(r1.image, r2.image, pal_index))

\* clut = fft_image_read_16bpp(span, FFT_IMAGE_PAL_COL_COUNT, desc.pal_count)
PalettizedClut(r1, so, desc, pal_index) ==
    IF so.status # "running"
    THEN [status |-> so.status, image |-> NoImage, span |-> so.span,
          mem |-> r1.mem]
    ELSE PalettizedApply(r1,
             fft_image_read_16bpp(so.span, r1.mem, FFT_IMAGE_PAL_COL_COUNT,
                                  desc.pal_count),
             pal_index)

\* fft_span_set_offset(span, desc.pal_offset)
PalettizedSeek(r1, desc, pal_index) ==
    IF r1.status # "running"
    THEN [status |-> r1.status, image |-> NoImage, span |-> r1.span,
          mem |-> r1.mem]
    ELSE PalettizedClut(r1, fft_span_set_offset(r1.span, desc.pal_offset),
                        desc, pal_index)

\* image = fft_image_read_4bpp(span, desc.width, desc.height), and the rest.
fft_image_read_4bpp_palettized(s, m, desc, pal_index) ==
    PalettizedSeek(fft_image_read_4bpp(s, m, desc.width, desc.height),
                   desc, pal_index)

(* fft_image_destroy(image): free the buffer if there is one.  The result  *)
(* is the image and the ledger after the call.                             *)
fft_image_destroy(img, m) ==
    IF img.data.ptr # NULL
    THEN [image |-> [img EXCEPT !.data = [ptr |-> NULL, bytes |-> <<>>],
                                !.valid = FALSE],
          mem   |-> fft_mem_free(m, img.size)]
    ELSE [image |-> img, mem |-> m]

---------------------------------------------------------------------------
(* The image specification: a source buffer that holds packed 4-bit        *)
(* pixels followed by palette rows of 16-bit colours, then the image       *)
(* operations on it.                                                       *)

\* Most source bytes of packed 4-bit pixels in front of the palette.
MaxImgBytes == 2

\* Most palette rows (banks) behind them.
MaxPalRows == 2

\* Largest width and height of a 4-bit image read.
MaxDim == 2

\* Source bytes of 4-bit pixels: 0xAB (nibbles 10 and 11) and 0x0F.
NibbleBytes == {171, 15}

(* Sixteen packed colours: zero, alpha alone, single channels at their     *)
(* lowest and highest values, channels with low bits set, all ones.        *)
PaletteColors ==
    <<0, 1, 31, 32, 992, 1024, 31744, 32768, 32799, 32767, 65535, 4660,
      33825, 8, 256, 21845>>

(* The bytes of rows palette rows: colour k of row r is                    *)
(* PaletteColors[(k + 5 * r) % 16], little-endian.                         *)
PaletteBytes(rows) ==
    [b \in 1..(32 * rows) |->
        LET k == (b - 1) \div 2
            c == PaletteColors[(((k % 16) + 5 * (k \div 16)) % 16) + 1]
        IN  IF (b - 1) % 2 = 0 THEN c % 256 ELSE c \div 256]

InitImage ==
    /\ \E img \in SeqsUpTo(NibbleBytes, MaxImgBytes),
          rows \in 0..MaxPalRows :
         span = [data |-> img \o PaletteBytes(rows),
                 size |-> Len(img) + 32 * rows, offset |-> 0]
    /\ status = "running"
    /\ last = NoCall
    /\ disc = NoDisc
    /\ mem = fft_mem_init
    /\ image = NoImage
    /\ clut = NoImage
    /\ map = NoMap
    /\ allocations_head = <<>>

(* image = fft_image_read_4bpp(&span, width, height).  The reads of the    *)
(* specification are made before any buffer is freed.                      *)
ImageRead4bpp ==
    /\ status = "running"
    /\ image = NoImage
    /\ mem.allocations_total = mem.allocations_current
    /\ \E width \in 0..MaxDim, height \in 0..MaxDim :
         LET r == fft_image_read_4bpp(span, mem, width, height)
         IN  /\ image' = r.image
             /\ span' = r.span
             /\ status' = r.status
             /\ mem' = r.mem
             /\ last' = [op |-> "fft_image_read_4bpp", width |-> width,
                         height |-> height, pre |-> span.offset]
    /\ UNCHANGED <<disc, clut, map, allocations_head>>

(* image or clut = fft_image_read_16bpp(&span, width, height): a palette   *)
(* of 16 columns, or an image one pixel wide.                              *)
ImageRead16bpp ==
    /\ status = "running"
    /\ mem.allocations_total = mem.allocations_current
    /\ \E height \in 0..MaxPalRows, into \in {"image", "clut"} :
         LET width == IF into = "clut" THEN FFT_IMAGE_PAL_COL_COUNT ELSE 1
             r     == fft_image_read_16bpp(span, mem, width, height)
         IN  /\ IF into = "image"
                THEN image = NoImage /\ image' = r.image /\ clut' = clut
                ELSE clut = NoImage /\ clut' = r.image /\ image' = image
             /\ span' = r.span
             /\ status' = r.status
             /\ mem' = r.mem
             /\ last' = [op |-> "fft_image_read_16bpp", width |-> width,
                         height |-> height, pre |-> span.offset,
                         into |-> into]
    /\ UNCHANGED <<disc, map, allocations_head>>

\* fft_image_palettize(&image, &clut, pal_index)
ImagePalettize ==
    /\ status = "running"
    /\ \E pal_index \in 0..MaxPalRows :
         LET r == fft_image_palettize(image, clut, pal_index)
         IN  /\ image' = r.image
             /\ status' = r.status
             /\ last' = [op |-> "fft_image_palettize",
                         pal_index |-> pal_index, pre_image |-> image]
    /\ UNCHANGED <<span, disc, mem, clut, map, allocations_head>>

(* image = fft_image_read_4bpp_palettized(&span, desc, pal_index) on a     *)
(* span just opened, for a descriptor whose palette lies right behind the  *)
(* pixels or outside the buffer.                                           *)
ImageRead4bppPalettized ==
    /\ status = "running"
    /\ last = NoCall
    /\ \E width \in 0..MaxDim, height \in 0..MaxDim,
          pal_count \in 0..MaxPalRows, pal_index \in 0..MaxPalRows :
         \E pal_offset \in {(width * height) \div 2, span.size + 1} :
         LET desc == [width |-> width, height |-> height,
                      pal_offset |-> pal_offset, pal_count |-> pal_count]
             r    == fft_image_read_4bpp_palettized(span, mem, desc, pal_index)
         IN  /\ image' = r.image
             /\ span' = r.span
             /\ status' = r.status
             /\ mem' = r.mem
             /\ last' = [op |-> "fft_image_read_4bpp_palettized",
                         desc |-> desc, pal_index |-> pal_index,
                         pre |-> span.offset]
    /\ UNCHANGED <<disc, clut, map, allocations_head>>

\* fft_image_destroy(&image)
ImageDestroy ==
    /\ status = "running"
    /\ image.data.ptr # NULL
    /\ LET r == fft_image_destroy(image, mem)
       IN  /\ image' = r.image
           /\ mem' = r.mem
    /\ last' = [op |-> "fft_image_destroy"]
    /\ UNCHANGED <<span, status, disc, clut, map, allocations_head>>

NextImage ==
    \/ ImageRead4bpp
    \/ ImageRead16bpp
    \/ ImagePalettize
    \/ ImageRead4bppPalettized
    \/ ImageDestroy

SpecImage == InitImage /\ [][NextImage]_vars

---------------------------------------------------------------------------
(* Claims about the image decoder.                                         *)

\* The 16-bit source value of pixel i of a read that started at offset pre.
Source16(pre, i) == span.data[pre + 2 * i + 1] + 256 * span.data[pre + 2 * i + 2]

\* The four bytes of pixel i of an image.
PixelBytes(img, i) == SubSeq(img.data.bytes, 4 * i + 1, 4 * i + 4)

(* C12: fft_image_read_16bpp turns each 16-bit source value c into one     *)
(* output pixel whose four bytes equal the packed-colour conversion of c:  *)
(* R = fft_color_5551_r8(c), G = _g8(c), B = _b8(c), A = _a8(c).           *)
C12_Expand16 ==
    (last.op = "fft_image_read_16bpp" /\ status = "running") =>
        LET img == IF last.into = "image" THEN image ELSE clut
        IN  \A i \in 0..(last.width * last.height - 1) :
               LET c == Source16(last.pre, i)
               IN  PixelBytes(img, i) =
                      <<fft_color_5551_r8(c), fft_color_5551_g8(c),
                        fft_color_5551_b8(c), fft_color_5551_a8(c)>>

(* C13: fft_image_read_4bpp(width, height) consumes width*height/2 source  *)
(* bytes and for source byte i writes output bytes 8i..8i+3 all equal to   *)
(* its low nibble (the "right" pixel) and bytes 8i+4..8i+7 all equal to    *)
(* its high nibble (the "left" pixel); the result has size                 *)
(* width*height*4, valid = true, and every output byte is in 0..15.  (The  *)
(* read is fatal exactly when fewer source bytes remain.)                  *)
C13_Expand4 ==
    last.op = "fft_image_read_4bpp" =>
        LET n == (last.width * last.height) \div 2
        IN  IF last.pre + n <= span.size
            THEN /\ status = "running"
                 /\ span.offset = last.pre + n
                 /\ \A i \in 0..(n - 1) :
                       LET b == span.data[last.pre + i + 1]
                       IN  \A k \in 1..4 :
                              /\ image.data.bytes[8 * i + k] = b % 16
                              /\ image.data.bytes[8 * i + 4 + k] = b \div 16
                 /\ image.size = last.width * last.height * 4
                 /\ Len(image.data.bytes) = image.size
                 /\ image.valid
                 /\ \A k \in 1..image.size : image.data.bytes[k] \in 0..15
            ELSE status = "fatal"

\* C13's case: the source byte 0xAB has been expanded to B B B B A A A A.
C13_Witness ==
    /\ last.op = "fft_image_read_4bpp"
    /\ status = "running"
    /\ last.width * last.height = 2
    /\ span.data[last.pre + 1] = 171
    /\ image.data.bytes = <<11, 11, 11, 11, 10, 10, 10, 10>>

(* C14: fft_image_palettize(image, palette, bank) replaces the 4 bytes of  *)
(* every pixel whose stored index is idx by palette bytes                  *)
(* [64*bank + 4*idx .. 64*bank + 4*idx + 3]; it fails (asserts) if any     *)
(* pixel's stored index is >= 16 or if 64*bank + 64 exceeds the palette    *)
(* buffer size, and an image fresh from the 4-bit expand with a bank       *)
(* inside the palette never triggers the failure.                          *)
C14_Palettize ==
    /\ last.op = "fft_image_palettize" =>
          LET pre  == last.pre_image
              n    == pre.width * pre.height
              bank == last.pal_index
              bad  == \/ \E i \in 0..(n - 1) : pre.data.bytes[4 * i + 1] >= 16
                      \/ 64 * bank + 64 > clut.size
          IN  IF pre.valid /\ clut.valid
              THEN /\ (status = "fatal") <=> bad
                   /\ status = "running" =>
                         /\ Len(image.data.bytes) = Len(pre.data.bytes)
                         /\ \A i \in 0..(n - 1) :
                               LET idx == pre.data.bytes[4 * i + 1]
                               IN  PixelBytes(image, i) =
                                      SubSeq(clut.data.bytes,
                                             64 * bank + 4 * idx + 1,
                                             64 * bank + 4 * idx + 4)
              ELSE status = "fatal"
    /\ last.op = "fft_image_read_4bpp_palettized" =>
          LET d == last.desc
              inside == /\ last.pre + (d.width * d.height) \div 2 <= span.size
                        /\ d.pal_offset + 32 * d.pal_count <= span.size
          IN  (inside /\ last.pal_index < d.pal_count) =>
                 /\ status = "running"
                 /\ image.valid
                 /\ image.size = 4 * d.width * d.height

(* C14's case: an image fresh from the 4-bit expand, with a pixel of index *)
(* 11, has been palettized from bank 1 of a two-bank palette.              *)
C14_Witness ==
    /\ last.op = "fft_image_palettize"
    /\ status = "running"
    /\ last.pal_index = 1
    /\ clut.size = 128
    /\ last.pre_image.data.bytes = <<11, 11, 11, 11, 10, 10, 10, 10>>
    /\ PixelBytes(image, 0) = SubSeq(clut.data.bytes, 109, 112)
    /\ image # last.pre_image

---------------------------------------------------------------------------
(* Geometry Implementation.                                                *)
(*                                                                         *)
(* fft_geometry_t.polygons is a function from the array indices that have  *)
(* been written to the polygon stored there; every other element of the    *)
(* array is as "= { 0 }" left it (ZeroPolygon).  The loops over the        *)
(* polygons are functions of the loop index i: every iteration of one loop *)
(* makes the same reads, so iteration i starts i strides behind the loop's *)
(* start, and the first iteration whose reads do not fit is the one whose  *)
(* read asserts.                                                           *)

FFT_MESH_MAX_TEX_TRIS == 512

FFT_MESH_MAX_TEX_QUADS == 768

FFT_MESH_MAX_UNTEX_TRIS == 64

FFT_MESH_MAX_UNTEX_QUADS == 256

FFT_MESH_MAX_POLYGONS ==
    FFT_MESH_MAX_TEX_TRIS + FFT_MESH_MAX_TEX_QUADS + FFT_MESH_MAX_UNTEX_TRIS
        + FFT_MESH_MAX_UNTEX_QUADS

FFT_POLYTYPE_TRIANGLE == 0

FFT_POLYTYPE_QUAD == 1

\* A polygon_t of a zero-initialised fft_geometry_t.
ZeroPolygon ==
    [type     |-> FFT_POLYTYPE_TRIANGLE,
     vertices |-> [j \in 1..4 |->
                     [position |-> [x |-> 0, y |-> 0, z |-> 0],
                      normal   |-> [x |-> 0, y |-> 0, z |-> 0],
                      texcoord |-> [u |-> 0, v |-> 0]]],
     tex      |-> [texcoords |-> [j \in 1..4 |-> [u |-> 0, v |-> 0]],
                   clut |-> 0, page |-> 0, image_to_use |-> 0,
                   unknown_a |-> 0, unknown_b |-> 0, unknown_c |-> 0,
                   is_textured |-> FALSE],
     untex    |-> [unknown_a |-> 0, unknown_b |-> 0, unknown_c |-> 0,
                   unknown_d |-> 0],
     tiles    |-> [x |-> 0, z |-> 0, elevation |-> 0]]

\* g->polygons[k]
PolygonAt(g, k) == IF k \in DOMAIN g THEN g[k] ELSE ZeroPolygon

(* The array after a loop that makes polygons[poly_offset + i] the value   *)
(* Upd(polygons[poly_offset + i], i), for i = 0 .. count - 1.              *)
StorePolygons(g, poly_offset, count, Upd(_, _)) ==
    [k \in DOMAIN g \cup (poly_offset..(poly_offset + count - 1)) |->
        IF poly_offset <= k /\ k < poly_offset + count
        THEN Upd(PolygonAt(g, k), k - poly_offset)
        ELSE g[k]]

\* The values of the reads of the given types made from offset off of s.
ValuesAt(s, off, types) ==
    SpanReadSeq([s EXCEPT !.offset = off], types, <<>>).values

\* fft_geometry_read_position, fft_geometry_read_normal: three i16.
XyzAt(s, off) ==
    [x |-> ValuesAt(s, off, <<"i16">>)[1],
     y |-> ValuesAt(s, off + 2, <<"i16">>)[1],
     z |-> ValuesAt(s, off + 4, <<"i16">>)[1]]

\* type == FFT_POLYTYPE_TRIANGLE ? 3 : 4
VertexCount(type) == IF type = FFT_POLYTYPE_TRIANGLE THEN 3 ELSE 4

(* One loop of count iterations of stride bytes each, from the state r =   *)
(* [status, span, g, index] the loops before it left: it asserts when its  *)
(* reads run over the end of the span, else it advances the cursor by      *)
(* count * stride, stores the polygons and returns poly_offset + count.    *)
PolygonLoop(r, count, stride, Upd(_, _)) ==
    IF r.status # "running"
    THEN r
    ELSE IF r.span.offset + count * stride > r.span.size
    THEN [r EXCEPT !.status = "fatal"]
    ELSE [status |-> "running",
          span   |-> [r.span EXCEPT !.offset = @ + count * stride],
          g      |-> StorePolygons(r.g, r.index, count, Upd),
          index  |-> r.index + count]

\* read_polygons(span, g, type, is_textured, poly_offset, count)
read_polygons(r, type, is_textured, count) ==
    PolygonLoop(r, count, 6 * VertexCount(type),
        LAMBDA poly, i :
            [poly EXCEPT
                !.tex.is_textured = is_textured,
                !.type = type,
                !.vertices = [j \in 1..4 |->
                    IF j <= VertexCount(type)
                    THEN [@[j] EXCEPT !.position =
                            XyzAt(r.span, r.span.offset
                                    + i * 6 * VertexCount(type) + 6 * (j - 1))]
                    ELSE @[j]]])

\* read_normals(span, g, type, poly_offset, count)
read_normals(r, type, count) ==
    PolygonLoop(r, count, 6 * VertexCount(type),
        LAMBDA poly, i :
            [poly EXCEPT
                !.vertices = [j \in 1..4 |->
                    IF j <= VertexCount(type)
                    THEN [@[j] EXCEPT !.normal =
                            XyzAt(r.span, r.span.offset
                                    + i * 6 * VertexCount(type) + 6 * (j - 1))]
                    ELSE @[j]]])

\* The bytes a read_texinfo iteration reads: 10, and 2 more for a quad.
TexinfoTypes(type) ==
    [k \in 1..(IF type = FFT_POLYTYPE_QUAD THEN 12 ELSE 10) |-> "u8"]

(* The polygon's texture info from the bytes b of one read_texinfo         *)
(* iteration: au av clut unknown_a bu bv page_and_image_and_unknown_b      *)
(* unknown_c cu cv [du dv].                                                *)
TexinfoOf(tex, b, type) ==
    [tex EXCEPT
        !.texcoords = [j \in 1..4 |->
            CASE j = 1 -> [u |-> b[1], v |-> b[2]]
              [] j = 2 -> [u |-> b[5], v |-> b[6]]
              [] j = 3 -> [u |-> b[9], v |-> b[10]]
              [] j = 4 -> IF type = FFT_POLYTYPE_QUAD
                          THEN [u |-> b[11], v |-> b[12]]
                          ELSE @[4]],
        !.clut = b[3],
        !.page = BitAnd(Shr(b[7], 0), 3),
        !.image_to_use = BitAnd(Shr(b[7], 2), 3),
        !.unknown_a = b[4],
        !.unknown_b = BitAnd(Shr(b[7], 4), 15),
        !.unknown_c = b[8]]

\* read_texinfo(span, g, type, poly_offset, count)
read_texinfo(r, type, count) ==
    PolygonLoop(r, count, Len(TexinfoTypes(type)),
        LAMBDA poly, i :
            [poly EXCEPT !.tex =
                TexinfoOf(@, ValuesAt(r.span,
                                 r.span.offset + i * Len(TexinfoTypes(type)),
                                 TexinfoTypes(type)),
                          type)])

\* read_untexinfo(span, g, poly_offset, count)
read_untexinfo(r, count) ==
    PolygonLoop(r, count, 4,
        LAMBDA poly, i :
            [poly EXCEPT !.untex =
                [unknown_a |-> ValuesAt(r.span, r.span.offset + 4 * i,
                                        <<"u8">>)[1],
                 unknown_b |-> ValuesAt(r.span, r.span.offset + 4 * i + 1,
                                        <<"u8">>)[1],
                 unknown_c |-> ValuesAt(r.span, r.span.offset + 4 * i + 2,
                                        <<"u8">>)[1],
                 unknown_d |-> ValuesAt(r.span, r.span.offset + 4 * i + 3,
                                        <<"u8">>)[1]]])

(* read_tile_locations(span, g, poly_offset, count): z_and_y and x;        *)
(* y = (z_and_y >> 0) & 0x01, z = (z_and_y >> 1) & 0xFE.                   *)
read_tile_locations(r, count) ==
    PolygonLoop(r, count, 2,
        LAMBDA poly, i :
            [poly EXCEPT !.tiles =
                [x |-> ValuesAt(r.span, r.span.offset + 2 * i + 1,
                                <<"u8">>)[1],
                 z |-> BitAnd(Shr(ValuesAt(r.span, r.span.offset + 2 * i,
                                           <<"u8">>)[1], 1), 254),
                 elevation |->
                     BitAnd(Shr(ValuesAt(r.span, r.span.offset + 2 * i,
                                         <<"u8">>)[1], 0), 1)]])

\* index = value
SetIndex(r, value) == [r EXCEPT !.index = value]


\* FFT_ASSERT(N <= FFT_MESH_MAX_TEX_TRIS, ...)
TexTrisValid_le(N) == N <= FFT_MESH_MAX_TEX_TRIS

\* FFT_ASSERT(N < FFT_MESH_MAX_TEX_TRIS, ...)
TexTrisValid(N) == N < FFT_MESH_MAX_TEX_TRIS

(* The message of the first of fft_geometry_read's four assertions that    *)
(* fails for the counts c = <<N, P, Q, R>>, "" when all of them pass.      *)
GeometryCountError(c) ==
    CASE ~TexTrisValid(c[1]) -> "Mesh textured triangle count exceeded"
      [] TexTrisValid(c[1]) /\ ~(c[2] < FFT_MESH_MAX_TEX_QUADS) ->
            "Mesh textured quad count exceeded"
      [] TexTrisValid(c[1]) /\ c[2] < FFT_MESH_MAX_TEX_QUADS
            /\ ~(c[3] < FFT_MESH_MAX_UNTEX_TRIS) ->
            "Mesh untextured triangle count exceeded"
      [] TexTrisValid(c[1]) /\ c[2] < FFT_MESH_MAX_TEX_QUADS
            /\ c[3] < FFT_MESH_MAX_UNTEX_TRIS
            /\ ~(c[4] < FFT_MESH_MAX_UNTEX_QUADS) ->
            "Mesh untextured quad count exceeded"
      [] OTHER -> ""

\* The message of fft_span_read's assertion.
OutOfBoundsRead == "Out of bounds read."

\* The four read_polygons calls with the quads of each class first.
GeometryPolygons_quadsfirst(r, c) ==
    read_polygons(
        read_polygons(
            read_polygons(
                read_polygons(SetIndex(r, 0),
                              FFT_POLYTYPE_QUAD, FALSE, c[2]),
                FFT_POLYTYPE_TRIANGLE, FALSE, c[1]),
            FFT_POLYTYPE_QUAD, FALSE, c[4]),
        FFT_POLYTYPE_TRIANGLE, FALSE, c[3])

\* fft_geometry_read from "// Polygons" to "// Tile Locations".
GeometryPolygons(r, c) ==
    read_polygons(
        read_polygons(
            read_polygons(
                read_polygons(SetIndex(r, 0),
                              FFT_POLYTYPE_TRIANGLE, FALSE, c[1]),
                FFT_POLYTYPE_QUAD, FALSE, c[2]),
            FFT_POLYTYPE_TRIANGLE, FALSE, c[3]),
        FFT_POLYTYPE_QUAD, FALSE, c[4])

GeometryNormals(r, c) ==
    read_normals(read_normals(SetIndex(r, 0), FFT_POLYTYPE_TRIANGLE, c[1]),
                 FFT_POLYTYPE_QUAD, c[2])

GeometryTexinfo(r, c) ==
    read_texinfo(read_texinfo(SetIndex(r, 0), FFT_POLYTYPE_TRIANGLE, c[1]),
                 FFT_POLYTYPE_QUAD, c[2])

\* The untextured-info pass restarting at polygon 0.
GeometryUntexinfo_restart(r, c) ==
    read_untexinfo(read_untexinfo(SetIndex(r, 0), c[3]), c[4])

GeometryUntexinfo(r, c) ==
    read_untexinfo(read_untexinfo(SetIndex(r, c[1] + c[2]), c[3]), c[4])

\* fft_geometry_read without its tile-location pass.
GeometryTiles_skipped(r, c) == SetIndex(r, 0)

GeometryTiles(r, c) ==
    read_tile_locations(read_tile_locations(SetIndex(r, 0), c[1]), c[2])

\* The geometry and the span the five groups of loops leave.
GeometryReturn(r) ==
    [status   |-> r.status,
     error    |-> IF r.status = "running" THEN "" ELSE OutOfBoundsRead,
     span     |-> r.span,
     geometry |-> [polygons |-> r.g]]

\* fft_geometry_read after its four count reads h.
GeometryCounted(h) ==
    IF h.status # "running"
    THEN [status |-> h.status, error |-> OutOfBoundsRead, span |-> h.span,
          geometry |-> [polygons |-> <<>>]]
    ELSE IF GeometryCountError(h.values) # ""
    THEN [status |-> "fatal", error |-> GeometryCountError(h.values),
          span |-> h.span, geometry |-> [polygons |-> <<>>]]
    ELSE GeometryReturn(
            GeometryTiles(
                GeometryUntexinfo(
                    GeometryTexinfo(
                        GeometryNormals(
                            GeometryPolygons(
                                [status |-> "running", span |-> h.span,
                                 g |-> <<>>, index |-> 0],
                                h.values),
                            h.values),
                        h.values),
                    h.values),
                h.values))

(* fft_geometry_read(span): [status, error, span, geometry]; error is the  *)
(* message of the assertion that ended the call, "" when it returned.      *)
fft_geometry_read(s) ==
    GeometryCounted(SpanReadSeq(s, <<"u16", "u16", "u16", "u16">>, <<>>))


---------------------------------------------------------------------------
(* The geometry specification: fft_geometry_read applied to a geometry     *)
(* chunk whose four counts are small, or at and around the limits of the   *)
(* polygon array, over a buffer that holds the whole chunk, all but its    *)
(* last byte, or not even the counts.                                      *)

MaxCount == 1

(* The bytes fft_geometry_read reads for the counts c = <<N, P, Q, R>>:    *)
(* the counts, the positions, the normals, the texture info and the tile   *)
(* locations of the textured polygons, and the untextured info.            *)
GeometrySize(c) ==
    8 + (18 * c[1] + 24 * c[2] + 18 * c[3] + 24 * c[4])
      + (18 * c[1] + 24 * c[2])
      + (10 * c[1] + 12 * c[2])
      + (4 * c[3] + 4 * c[4])
      + (2 * c[1] + 2 * c[2])

\* The largest chunk the specification builds.
MaxGeometryBytes ==
    GeometrySize(<<FFT_MESH_MAX_TEX_TRIS, FFT_MESH_MAX_TEX_QUADS,
                   FFT_MESH_MAX_UNTEX_TRIS, FFT_MESH_MAX_UNTEX_QUADS>>)

\* A uint16_t as the file stores it.
U16Bytes(v) == <<v % 256, v \div 256>>

\* A geometry chunk of len bytes that starts with the counts c.
GeometryBytes(c, len) ==
    SubSeq(U16Bytes(c[1]) \o U16Bytes(c[2]) \o U16Bytes(c[3])
               \o U16Bytes(c[4]) \o [k \in 1..len |-> (k * 37 + k \div 251) % 256],
           1, len)

GeometryCounts ==
    [1..4 -> 0..MaxCount]
    \cup
    {<<FFT_MESH_MAX_TEX_TRIS - 1, 0, 0, 0>>,
     <<FFT_MESH_MAX_TEX_TRIS, 0, 0, 0>>,
     <<0, FFT_MESH_MAX_TEX_QUADS - 1, 0, 0>>,
     <<0, FFT_MESH_MAX_TEX_QUADS, 0, 0>>,
     <<0, 0, FFT_MESH_MAX_UNTEX_TRIS - 1, 0>>,
     <<0, 0, FFT_MESH_MAX_UNTEX_TRIS, 0>>,
     <<0, 0, 0, FFT_MESH_MAX_UNTEX_QUADS - 1>>,
     <<0, 0, 0, FFT_MESH_MAX_UNTEX_QUADS>>,
     <<FFT_MESH_MAX_TEX_TRIS - 1, FFT_MESH_MAX_TEX_QUADS - 1,
       FFT_MESH_MAX_UNTEX_TRIS - 1, FFT_MESH_MAX_UNTEX_QUADS - 1>>,
     <<FFT_MESH_MAX_TEX_TRIS, FFT_MESH_MAX_TEX_QUADS,
       FFT_MESH_MAX_UNTEX_TRIS, FFT_MESH_MAX_UNTEX_QUADS>>,
     <<65535, 0, 0, 0>>,
     <<0, 0, 0, 65535>>}

InitGeometry ==
    /\ \E c \in GeometryCounts :
         \E len \in {Min(GeometrySize(c), MaxGeometryBytes),
                     Min(GeometrySize(c), MaxGeometryBytes) - 1, 7, 0} :
            span = [data |-> GeometryBytes(c, len), size |-> len,
                    offset |-> 0]
    /\ status = "running"
    /\ last = NoCall
    /\ disc = NoDisc
    /\ mem = fft_mem_init
    /\ image = NoImage
    /\ clut = NoImage
    /\ map = NoMap
    /\ allocations_head = <<>>

\* The state after a call of fft_geometry_read that had the result r.
GeometryReadDone(r) ==
    /\ span' = r.span
    /\ status' = r.status
    /\ last' = [op |-> "fft_geometry_read", pre |-> span.offset,
                error |-> r.error, geometry |-> r.geometry]

\* A call of fft_geometry_read(&span).
GeometryRead ==
    /\ status = "running"
    /\ last = NoCall
    /\ GeometryReadDone(fft_geometry_read(span))
    /\ UNCHANGED <<disc, mem, image, clut, map, allocations_head>>

NextGeometry == GeometryRead

SpecGeometry == InitGeometry /\ [][NextGeometry]_vars

---------------------------------------------------------------------------
(* Claims about the geometry decoder.                                      *)

\* The counts at the start of the chunk.
ChunkCounts ==
    [k \in 1..4 |-> LeValue(SubSeq(span.data, 2 * k - 1, 2 * k))]

CountMessages ==
    {"Mesh textured triangle count exceeded",
     "Mesh textured quad count exceeded",
     "Mesh untextured triangle count exceeded",
     "Mesh untextured quad count exceeded"}

---------------------------------------------------------------------------
(* Mesh Header Implementation.                                             *)

\* Total size of mesh header in bytes.
FFT_MESH_HEADER_SIZE == 196

\* A uint32_t of value 0.
ZeroU32 == [hi |-> 0, lo |-> 0]

(* The reads of fft_mesh_header_read in its order: the header field, and   *)
(* the type of a typed read or the size of a fft_span_read_bytes.          *)
MeshHeaderReads ==
    <<[field |-> "unknown_00_to_40", bytes |-> 64],
      [field |-> "geometry", bytes |-> 0],
      [field |-> "clut_color", bytes |-> 0],
      [field |-> "unknown_48", bytes |-> 0],
      [field |-> "unknown_4c", bytes |-> 0],
      [field |-> "unknown_50_to_64", bytes |-> 20],
      [field |-> "lights_and_background", bytes |-> 0],
      [field |-> "terrain", bytes |-> 0],
      [field |-> "texture_anim_inst", bytes |-> 0],
      [field |-> "palette_anim_inst", bytes |-> 0],
      [field |-> "unknown_74_to_7c", bytes |-> 8],
      [field |-> "clut_gray", bytes |-> 0],
      [field |-> "unknown_80_to_8c", bytes |-> 12],
      [field |-> "mesh_anim_inst", bytes |-> 0],
      [field |-> "anim_mesh_1", bytes |-> 0],
      [field |-> "anim_mesh_2", bytes |-> 0],
      [field |-> "anim_mesh_3", bytes |-> 0],
      [field |-> "anim_mesh_4", bytes |-> 0],
      [field |-> "anim_mesh_5", bytes |-> 0],
      [field |-> "anim_mesh_6", bytes |-> 0],
      [field |-> "anim_mesh_7", bytes |-> 0],
      [field |-> "anim_mesh_8", bytes |-> 0],
      [field |-> "poly_render_props", bytes |-> 0],
      [field |-> "unknown_b4_to_c4", bytes |-> 16]>>

(* fft_mesh_header_t header = { 0 }: an unknown array is kept as the bytes  *)
(* fft_span_read_bytes copied into it.                                     *)
ZeroMeshHeader ==
    [f \in { MeshHeaderReads[k].field : k \in DOMAIN MeshHeaderReads } |->
        LET k == CHOOSE k \in DOMAIN MeshHeaderReads :
                    MeshHeaderReads[k].field = f
        IN  IF MeshHeaderReads[k].bytes = 0
            THEN ZeroU32
            ELSE Zeros(MeshHeaderReads[k].bytes)]

(* fft_mesh_header_read from its k-th read on: the SET of [status, header, *)
(* span] the reads can end in.  A typed read asserts; fft_span_read_bytes  *)
(* that runs over the end faults or stores what lies behind the buffer.    *)
RECURSIVE MeshHeaderReadLoop(_, _, _)
MeshHeaderReadLoop(s, header, k) ==
    IF k > Len(MeshHeaderReads)
    THEN {[status |-> "running", header |-> header, span |-> s]}
    ELSE IF MeshHeaderReads[k].bytes > 0
    THEN UNION {
            IF r.status = "running"
            THEN MeshHeaderReadLoop(
                    r.span,
                    [header EXCEPT ![MeshHeaderReads[k].field] =
                        r.out.bytes],
                    k + 1)
            ELSE {[status |-> r.status, header |-> header, span |-> r.span]}
            : r \in fft_span_read_bytes(s, MeshHeaderReads[k].bytes) }
    ELSE IF fft_span_read("u32", s).status = "running"
    THEN MeshHeaderReadLoop(
            fft_span_read("u32", s).span,
            [header EXCEPT ![MeshHeaderReads[k].field] =
                fft_span_read("u32", s).value],
            k + 1)
    ELSE {[status |-> "fatal", header |-> header, span |-> s]}

\* fft_mesh_header_read(span)
fft_mesh_header_read(s) == MeshHeaderReadLoop(s, ZeroMeshHeader, 1)


---------------------------------------------------------------------------
(* CLUT Implementation.                                                    *)

FFT_CLUT_ROW_WIDTH == 16

FFT_CLUT_ROW_COUNT == 16

\* The fft_color_5551_t that fft_color_5551_read makes of the u16 it read.
Color5551Of(value) ==
    BitOr(BitOr(BitAnd(value, 31),
                Shl(BitAnd(Shr(value, 5), 31), 5)),
          BitOr(Shl(BitAnd(Shr(value, 10), 31), 10),
                Shl(BitAnd(Shr(value, 15), 1), 15)))

\* fft_clut_t clut = { 0 }
ZeroClut ==
    [rows |-> [i \in 0..(FFT_CLUT_ROW_COUNT - 1) |->
                 [colors |-> [j \in 0..(FFT_CLUT_ROW_WIDTH - 1) |-> 0]]]]

(* fft_clut_read(span): 16 fft_clut_row_read of 16 fft_color_5551_read     *)
(* each; colour j of row i is read 2 * (16 * i + j) bytes from the start,  *)
(* and the first read that does not fit asserts.                           *)
fft_clut_read(s) ==
    IF s.offset + 2 * FFT_CLUT_ROW_COUNT * FFT_CLUT_ROW_WIDTH > s.size
    THEN [status |-> "fatal", error |-> OutOfBoundsRead, span |-> s,
          clut |-> ZeroClut]
    ELSE [status |-> "running", error |-> "",
          span |-> [s EXCEPT !.offset =
                        @ + 2 * FFT_CLUT_ROW_COUNT * FFT_CLUT_ROW_WIDTH],
          clut |-> [rows |-> [i \in 0..(FFT_CLUT_ROW_COUNT - 1) |->
                      [colors |-> [j \in 0..(FFT_CLUT_ROW_WIDTH - 1) |->
                          Color5551Of(ValuesAt(s,
                              s.offset + 2 * (FFT_CLUT_ROW_WIDTH * i + j),
                              <<"u16">>)[1])]]]]]

---------------------------------------------------------------------------
(* Lights and Background Implementation.                                   *)

FFT_LIGHTING_MAX_LIGHTS == 3

\* light.color.r + light.color.g + light.color.b > 0.0f
fft_light_is_valid(light) ==
    light.color.r + light.color.g + light.color.b > 0

\* The reads of fft_lighting_read, in its order.
LightingTypes ==
    [k \in 1..30 |-> IF k <= 18 THEN "i16" ELSE "u8"]

\* fft_lighting_t l = { 0 }
ZeroLighting ==
    [lights |-> [i \in 0..(FFT_LIGHTING_MAX_LIGHTS - 1) |->
                   [color |-> [r |-> 0, g |-> 0, b |-> 0],
                    position |-> [x |-> 0, y |-> 0, z |-> 0]]],
     ambient_color |-> [r |-> 0, g |-> 0, b |-> 0],
     background_top |-> [r |-> 0, g |-> 0, b |-> 0],
     background_bottom |-> [r |-> 0, g |-> 0, b |-> 0],
     unknown_a |-> 0, unknown_b |-> 0, unknown_c |-> 0]

\* fft_lighting_read taking the colours as three RGB triples, light by light.
LightingOf_interleaved(v) ==
    [lights |-> [i \in 0..(FFT_LIGHTING_MAX_LIGHTS - 1) |->
                   [color |-> [r |-> v[1 + 3 * i], g |-> v[2 + 3 * i],
                               b |-> v[3 + 3 * i]],
                    position |-> [x |-> v[10 + 3 * i], y |-> v[11 + 3 * i],
                                  z |-> v[12 + 3 * i]]]],
     ambient_color |-> [r |-> v[19], g |-> v[20], b |-> v[21]],
     background_top |-> [r |-> v[22], g |-> v[23], b |-> v[24]],
     background_bottom |-> [r |-> v[25], g |-> v[26], b |-> v[27]],
     unknown_a |-> v[28], unknown_b |-> v[29], unknown_c |-> v[30]]

\* The fft_lighting_t that fft_lighting_read makes of the values v it read.
LightingOf(v) ==
    [lights |-> [i \in 0..(FFT_LIGHTING_MAX_LIGHTS - 1) |->
                   [color |-> [r |-> v[1 + i], g |-> v[4 + i],
                               b |-> v[7 + i]],
                    position |-> [x |-> v[10 + 3 * i], y |-> v[11 + 3 * i],
                                  z |-> v[12 + 3 * i]]]],
     ambient_color |-> [r |-> v[19], g |-> v[20], b |-> v[21]],
     background_top |-> [r |-> v[22], g |-> v[23], b |-> v[24]],
     background_bottom |-> [r |-> v[25], g |-> v[26], b |-> v[27]],
     unknown_a |-> v[28], unknown_b |-> v[29], unknown_c |-> v[30]]

\* fft_lighting_read after its reads h.
LightingReturn(h) ==
    IF h.status # "running"
    THEN [status |-> h.status, error |-> OutOfBoundsRead, span |-> h.span,
          lighting |-> ZeroLighting]
    ELSE [status |-> "running", error |-> "", span |-> h.span,
          lighting |-> LightingOf(h.values)]

\* fft_lighting_read(span)
fft_lighting_read(s) == LightingReturn(SpanReadSeq(s, LightingTypes, <<>>))


---------------------------------------------------------------------------
(* Terrain Implementation.                                                 *)
(*                                                                         *)
(* fft_terrain_t.tiles is a function from the flat element index           *)
(* 256 * level + i of tiles[level][i], for the elements that were written, *)
(* to the tile stored there; the two levels lie one behind the other, so   *)
(* tiles[0][256 + i] is tiles[1][i] and tiles[1][256 + i] is behind the    *)
(* array.                                                                  *)

FFT_TERRAIN_MAX_X == 17

FFT_TERRAIN_MAX_Z == 18

FFT_TERRAIN_MAX_Y == 2

FFT_TERRAIN_MAX_TILES == 256

SLOPE_FLAT == 0

\* The reads of one iteration of fft_terrain_read's loops.
TileTypes == [k \in 1..8 |-> "u8"]

\* The tile that one iteration makes of the bytes b it read.
TileOf(b) ==
    [surface |-> BitAnd(b[1], 63),
     slope |-> b[5],
     sloped_height_bottom |-> b[3],
     sloped_height_top |-> BitAnd(b[4], 31),
     depth |-> BitAnd(Shr(b[4], 5), 7),
     shading |-> BitAnd(Shr(b[7], 2), 3),
     auto_cam_dir |-> b[8],
     pass_through_only |-> BitAnd(b[7], 1) # 0,
     cant_walk |-> BitAnd(b[7], 64) # 0,
     cant_select |-> BitAnd(b[7], 128) # 0]

\* fft_terrain_t terrain = { 0 }
ZeroTerrain ==
    [tiles |-> <<>>, x_count |-> 0, z_count |-> 0, valid |-> FALSE]

(* Iteration t of the loops (t = (level * z_count + z) * x_count + x)      *)
(* makes its first six reads inside the span and then fails the flat-tile  *)
(* assertion.                                                              *)
TileFlatFails(s, t) ==
    /\ s.offset + 8 * t + 6 <= s.size
    /\ ValuesAt(s, s.offset + 8 * t + 4, <<"u8">>)[1] = SLOPE_FLAT
    /\ BitAnd(ValuesAt(s, s.offset + 8 * t + 3, <<"u8">>)[1], 31)
          \notin {0, 1}

\* The iterations at which the loops would end in an assertion.
TileStops(s, total) ==
    { t \in 0..(total - 1) :
        \/ s.offset + 8 * t + 8 > s.size
        \/ TileFlatFails(s, t) }

\* The flat element index iteration t stores its tile at.
TileIndex(t, x_count, z_count) ==
    FFT_TERRAIN_MAX_TILES * (t \div (x_count * z_count))
        + (t % (x_count * z_count))

\* The iterations among the first n that store into the array.
TileStores(n, x_count, z_count) ==
    { t \in 0..(n - 1) :
        TileIndex(t, x_count, z_count)
            < FFT_TERRAIN_MAX_Y * FFT_TERRAIN_MAX_TILES }

(* The iterations among the first n that store at the flat element index  *)
(* f: that of level 0 with z * x_count + x = f and that of level 1 with    *)
(* z * x_count + x = f - 256.                                              *)
TileStoresAt(f, n, x_count, z_count) ==
    { t \in {f, f - FFT_TERRAIN_MAX_TILES + x_count * z_count} :
        /\ 0 <= t /\ t < n
        /\ TileIndex(t, x_count, z_count) = f }

\* The array after the first n iterations: the last store to an element.
TilesAfter(s, n, x_count, z_count) ==
    [f \in { TileIndex(t, x_count, z_count) :
                t \in TileStores(n, x_count, z_count) } |->
        TileOf(ValuesAt(s,
            s.offset + 8 * (CHOOSE t \in TileStoresAt(f, n, x_count, z_count) :
                \A u \in TileStoresAt(f, n, x_count, z_count) : u <= t),
            TileTypes))]

\* The first iteration that ends in an assertion.
FirstStop(stops) == CHOOSE t \in stops : \A u \in stops : t <= u

(* The loops of fft_terrain_read over the span s behind the counts, which  *)
(* end after n iterations: the SET of outcomes.  A store behind the array  *)
(* is undefined behaviour (the memory behind the local terrain is          *)
(* overwritten): the process faults, or it goes on with its own locals     *)
(* overwritten in a way the model does not follow ("corrupted"), or it     *)
(* goes on with the array as the stores into it left it.                   *)
TerrainLoops(s, n, total, x_count, z_count) ==
    (IF TileStores(n, x_count, z_count) # 0..(n - 1)
     THEN {[status |-> st, error |-> "", span |-> s,
            terrain |-> ZeroTerrain] : st \in {"crashed", "corrupted"}}
     ELSE {})
    \cup
    {IF n < total
     THEN [status |-> "fatal",
           error |-> IF TileFlatFails(s, n)
                     THEN "Flat tile has > 1 sloped height top"
                     ELSE OutOfBoundsRead,
           span |-> s, terrain |-> ZeroTerrain]
     ELSE [status |-> "running", error |-> "",
           span |-> [s EXCEPT !.offset = @ + 8 * total],
           terrain |-> [tiles |-> TilesAfter(s, total, x_count, z_count),
                        x_count |-> x_count, z_count |-> z_count,
                        valid |-> TRUE]]}

\* fft_terrain_read after its two count reads h.
TerrainCounted(h) ==
    IF h.status # "running"
    THEN {[status |-> h.status, error |-> OutOfBoundsRead, span |-> h.span,
           terrain |-> ZeroTerrain]}
    ELSE IF ~(h.values[1] <= FFT_TERRAIN_MAX_X)
    THEN {[status |-> "fatal", error |-> "Terrain X count exceeded",
           span |-> h.span, terrain |-> ZeroTerrain]}
    ELSE IF ~(h.values[2] <= FFT_TERRAIN_MAX_Z)
    THEN {[status |-> "fatal", error |-> "Terrain Z count exceeded",
           span |-> h.span, terrain |-> ZeroTerrain]}
    ELSE TerrainLoops(
            h.span,
            IF TileStops(h.span, 2 * h.values[1] * h.values[2]) = {}
            THEN 2 * h.values[1] * h.values[2]
            ELSE FirstStop(TileStops(h.span, 2 * h.values[1] * h.values[2])),
            2 * h.values[1] * h.values[2],
            h.values[1], h.values[2])

\* fft_terrain_read(span): the SET of [status, error, span, terrain].
fft_terrain_read(s) ==
    TerrainCounted(SpanReadSeq(s, <<"u8", "u8">>, <<>>))


---------------------------------------------------------------------------
(* Mesh Implementation.                                                    *)

\* fft_state_t state = { 0 }
ZeroState == [time |-> 0, weather |-> 0, layout |-> 0]

\* fft_mesh_t mesh = { 0 }
ZeroMesh ==
    [state |-> ZeroState, header |-> ZeroMeshHeader,
     geometry |-> [polygons |-> <<>>], clut |-> ZeroClut,
     lighting |-> ZeroLighting, terrain |-> ZeroTerrain, meta |-> ZeroMeta]

\* mesh.header.<pointer> != 0
PointerSet(p) == ~(p.hi = 0 /\ p.lo = 0)

(* fft_span_set_offset(span, <uint32_t pointer>): the sizes of the spans   *)
(* modelled are below 2^31, a pointer of 2^31 or more is behind every one. *)
SetOffsetU32(f, p) ==
    IF p.hi < 32768
    THEN fft_span_set_offset(f, p.hi * 65536 + p.lo)
    ELSE [status |-> "fatal", span |-> f]

\* The message of fft_span_set_offset's assertion.
SeekOutOfBounds == "Seek out of bounds."

\* The call ended in an assertion with the message error.
MeshFatal(r, error) == [r EXCEPT !.status = "fatal", !.error = error]

(* The geometry branch after fft_geometry_read returned g from the span so *)
(* left at the pointer: the jump back, the four count reads c, the meta.   *)
MeshGeometryCounts(r, so, g, c) ==
    IF c.status # "running"
    THEN MeshFatal(r, OutOfBoundsRead)
    ELSE [r EXCEPT
            !.span = c.span,
            !.mesh.geometry = g.geometry,
            !.mesh.meta.tex_tri_count = c.values[1],
            !.mesh.meta.tex_quad_count = c.values[2],
            !.mesh.meta.untex_tri_count = c.values[3],
            !.mesh.meta.untex_quad_count = c.values[4],
            !.mesh.meta.polygon_count =
                (c.values[1] + c.values[2] + c.values[3] + c.values[4])
                    % 65536,
            !.mesh.meta.has_geometry = TRUE]

MeshGeometryRead(r, so, g) ==
    IF g.status # "running"
    THEN MeshFatal(r, g.error)
    ELSE MeshGeometryCounts(r, so, g,
            SpanReadSeq(so.span, <<"u16", "u16", "u16", "u16">>, <<>>))

MeshGeometrySeek(r, so) ==
    IF so.status # "running"
    THEN MeshFatal(r, SeekOutOfBounds)
    ELSE MeshGeometryRead(r, so, fft_geometry_read(so.span))

\* if (mesh.header.geometry != 0) { ... }
MeshGeometry(r) ==
    IF r.status = "running" /\ PointerSet(r.mesh.header.geometry)
    THEN MeshGeometrySeek(r, SetOffsetU32(r.span, r.mesh.header.geometry))
    ELSE r

\* The palette branch without the store of its presence flag.
MeshClutRead_unflagged(r, c) ==
    IF c.status # "running"
    THEN MeshFatal(r, c.error)
    ELSE [r EXCEPT !.span = c.span, !.mesh.clut = c.clut]

\* The palette branch after fft_clut_read returned c.
MeshClutRead(r, c) ==
    IF c.status # "running"
    THEN MeshFatal(r, c.error)
    ELSE [r EXCEPT !.span = c.span, !.mesh.clut = c.clut,
                   !.mesh.meta.has_clut = TRUE]

MeshClutSeek(r, so) ==
    IF so.status # "running"
    THEN MeshFatal(r, SeekOutOfBounds)
    ELSE MeshClutRead(r, fft_clut_read(so.span))

\* if (mesh.header.clut_color != 0) { ... }
MeshClut(r) ==
    IF r.status = "running" /\ PointerSet(r.mesh.header.clut_color)
    THEN MeshClutSeek(r, SetOffsetU32(r.span, r.mesh.header.clut_color))
    ELSE r

MeshLightingRead(r, l) ==
    IF l.status # "running"
    THEN MeshFatal(r, l.error)
    ELSE [r EXCEPT
            !.span = l.span, !.mesh.lighting = l.lighting,
            !.mesh.meta.has_lighting = TRUE,
            !.mesh.meta.light_count =
                @ + Cardinality({ i \in 0..(FFT_LIGHTING_MAX_LIGHTS - 1) :
                                    fft_light_is_valid(l.lighting.lights[i]) })]

MeshLightingSeek(r, so) ==
    IF so.status # "running"
    THEN MeshFatal(r, SeekOutOfBounds)
    ELSE MeshLightingRead(r, fft_lighting_read(so.span))

\* if (mesh.header.lights_and_background != 0) { ... }
MeshLighting(r) ==
    IF r.status = "running" /\ PointerSet(r.mesh.header.lights_and_background)
    THEN MeshLightingSeek(r,
            SetOffsetU32(r.span, r.mesh.header.lights_and_background))
    ELSE r

MeshTerrainRead(r, t) ==
    IF t.status # "running"
    THEN [r EXCEPT !.status = t.status, !.error = t.error]
    ELSE [r EXCEPT !.span = t.span, !.mesh.terrain = t.terrain,
                   !.mesh.meta.has_terrain = TRUE]

MeshTerrainSeek(r, so) ==
    IF so.status # "running"
    THEN {MeshFatal(r, SeekOutOfBounds)}
    ELSE { MeshTerrainRead(r, t) : t \in fft_terrain_read(so.span) }

\* if (mesh.header.terrain != 0) { ... }: the SET of outcomes.
MeshTerrain(r) ==
    IF r.status = "running" /\ PointerSet(r.mesh.header.terrain)
    THEN MeshTerrainSeek(r, SetOffsetU32(r.span, r.mesh.header.terrain))
    ELSE {r}

\* fft_mesh_read after fft_mesh_header_read ended as h.
MeshHeaderDone(h) ==
    [status |-> h.status,
     error  |-> IF h.status = "fatal" THEN OutOfBoundsRead ELSE "",
     span   |-> h.span,
     mesh   |-> [ZeroMesh EXCEPT !.header = h.header]]

(* fft_mesh_read(span): the SET of [status, error, span, mesh]; mesh is    *)
(* what the call returns when status is "running".  A span of the model    *)
(* always has data, which leaves span->offset == 0 of the first assertion. *)
fft_mesh_read(s) ==
    IF ~(s.offset = 0)
    THEN {[status |-> "fatal", error |-> "Invalid span for mesh read",
           span |-> s, mesh |-> ZeroMesh]}
    ELSE UNION { MeshTerrain(MeshLighting(MeshClut(MeshGeometry(
                    MeshHeaderDone(h)))))
                 : h \in fft_mesh_header_read(s) }


---------------------------------------------------------------------------
(* The mesh specification: fft_mesh_read applied to a mesh resource made   *)
(* of a header and, behind it, a geometry, a palette, a lighting and a     *)
(* terrain chunk in either order, each pointed to by the header or not;    *)
(* the resource whole, cut short, or with pointers that lead out of it.    *)

\* A uint32_t below 2^31 as the file stores it.
U32Bytes(v) ==
    <<v % 256, (v \div 256) % 256, (v \div 65536) % 256, v \div 16777216>>

MeshChunks == {"geometry", "clut", "lighting", "terrain"}

\* A terrain of 2 x 1 tiles on both levels: a flat tile, then a sloped one.
TerrainChunk ==
    <<2, 1,
      65, 9, 2, 33, 0, 9, 197, 1,
      2, 9, 3, 70, 133, 9, 4, 2,
      3, 9, 4, 0, 0, 9, 64, 3,
      4, 9, 5, 255, 37, 9, 129, 4>>

\* The bytes of a chunk.
ChunkBytes(name) ==
    CASE name = "geometry" ->
            GeometryBytes(<<1, 1, 1, 1>>, GeometrySize(<<1, 1, 1, 1>>))
      [] name = "clut" ->
            [k \in 1..(2 * FFT_CLUT_ROW_COUNT * FFT_CLUT_ROW_WIDTH) |->
                (k * 5 + 3) % 256]
      [] name = "lighting" ->
            <<1, 0, 255, 255, 0, 0,   2, 0, 0, 0, 0, 0,   3, 0, 1, 0, 0, 0>>
                \o [k \in 1..30 |-> (k * 29) % 256]
      [] name = "terrain" -> TerrainChunk

\* The orders the chunks are laid out in.
MeshOrders ==
    {<<"geometry", "clut", "lighting", "terrain">>,
     <<"terrain", "lighting", "clut", "geometry">>}

\* Where a chunk starts in a resource of the given order.
RECURSIVE ChunkOffset(_, _)
ChunkOffset(order, name) ==
    IF order[Len(order)] = name
    THEN FFT_MESH_HEADER_SIZE
           + Len(Concat([k \in 1..(Len(order) - 1) |-> ChunkBytes(order[k])]))
    ELSE ChunkOffset(SubSeq(order, 1, Len(order) - 1), name)

\* The size of the whole resource.
MeshSize ==
    FFT_MESH_HEADER_SIZE
        + Len(Concat([k \in 1..4 |->
                ChunkBytes(<<"geometry", "clut", "lighting", "terrain">>[k])]))

\* The header offsets of the four pointers fft_mesh_read follows.
PointerOffset(name) ==
    CASE name = "geometry" -> 64
      [] name = "clut" -> 68
      [] name = "lighting" -> 100
      [] name = "terrain" -> 104

(* The pointer to a present chunk: to its start ("inside"), to the end of  *)
(* the resource ("end"), one past its end ("past"), or 64 KiB past the     *)
(* chunk's start ("high").                                                 *)
PointerModes == {"inside", "end", "past", "high"}

PointerValue(order, name, mode, len) ==
    CASE mode = "inside" -> ChunkOffset(order, name)
      [] mode = "end" -> len
      [] mode = "past" -> len + 1
      [] mode = "high" -> 65536 + ChunkOffset(order, name)

\* The header: a pattern, with the four pointers stored over it.
MeshHeaderBytes(present, order, mode, len) ==
    [k \in 1..FFT_MESH_HEADER_SIZE |->
        IF \E name \in MeshChunks :
              k - 1 \in PointerOffset(name)..(PointerOffset(name) + 3)
        THEN LET name == CHOOSE name \in MeshChunks :
                    k - 1 \in PointerOffset(name)..(PointerOffset(name) + 3)
             IN  IF name \in present
                 THEN U32Bytes(PointerValue(order, name, mode, len))
                        [k - PointerOffset(name)]
                 ELSE 0
        ELSE (k * 3 + 1) % 256]

\* The first len bytes of the resource.
MeshBytes(present, order, mode, len) ==
    SubSeq(MeshHeaderBytes(present, order, mode, len)
              \o Concat([k \in 1..Len(order) |-> ChunkBytes(order[k])]),
           1, len)

\* The sizes a resource is cut to (with pointers to the chunks' starts).
MeshCuts ==
    {0, 63, 64, 100, 179, 180, 195, FFT_MESH_HEADER_SIZE, MeshSize - 1}

InitMesh ==
    /\ \E present \in SUBSET MeshChunks, order \in MeshOrders :
         \E c \in { <<"inside", len>> : len \in MeshCuts \cup {MeshSize} }
                    \cup { <<mode, MeshSize>> : mode \in PointerModes } :
            span = [data |-> MeshBytes(present, order, c[1], c[2]),
                    size |-> c[2], offset |-> 0]
    /\ status = "running"
    /\ last = NoCall
    /\ disc = NoDisc
    /\ mem = fft_mem_init
    /\ image = NoImage
    /\ clut = NoImage
    /\ map = NoMap
    /\ allocations_head = <<>>

\* A call of fft_mesh_read(&span).
MeshRead ==
    /\ status = "running"
    /\ last = NoCall
    /\ \E r \in fft_mesh_read(span) :
         /\ span' = r.span
         /\ status' = r.status
         /\ last' = [op |-> "fft_mesh_read", error |-> r.error,
                     mesh |-> r.mesh]
    /\ UNCHANGED <<disc, mem, image, clut, map, allocations_head>>

NextMesh == MeshRead

SpecMesh == InitMesh /\ [][NextMesh]_vars


---------------------------------------------------------------------------
(* Claims about the mesh decoder.                                          *)

\* The four header bytes at offset off of the resource.
HeaderBytesAt(off) == SubSeq(span.data, off + 1, off + 4)

\* The little-endian value of the header's pointer at offset off.
HeaderPointerAt(off) ==
    LeValue(SubSeq(HeaderBytesAt(off), 1, 2))
        + 65536 * LeValue(SubSeq(HeaderBytesAt(off), 3, 4))

\* The resource with the cursor at the pointer stored at header offset off.
SpanAtPointer(off) == [span EXCEPT !.offset = HeaderPointerAt(off)]

(* C15: after fft_mesh_read, has_geometry, has_clut, has_lighting and      *)
(* has_terrain are true exactly when the header pointer at 0x40, 0x44,     *)
(* 0x64 and 0x68 is non-zero; a present sub-chunk is the one decoded from  *)
(* that absolute offset of the resource, an absent one is all-zero.        *)
C15_ChunkPresence ==
    (last.op = "fft_mesh_read" /\ status = "running") =>
        /\ last.mesh.meta.has_geometry <=> HeaderBytesAt(64) # <<0, 0, 0, 0>>
        /\ last.mesh.meta.has_clut <=> HeaderBytesAt(68) # <<0, 0, 0, 0>>
        /\ last.mesh.meta.has_lighting <=> HeaderBytesAt(100) # <<0, 0, 0, 0>>
        /\ last.mesh.meta.has_terrain <=> HeaderBytesAt(104) # <<0, 0, 0, 0>>
        /\ IF last.mesh.meta.has_geometry
           THEN /\ last.mesh.geometry =
                     fft_geometry_read(SpanAtPointer(64)).geometry
                /\ last.mesh.geometry.polygons[0].vertices[1].position.x =
                     MemcpyValue("i16",
                        SubSeq(span.data, HeaderPointerAt(64) + 9,
                               HeaderPointerAt(64) + 10))
           ELSE last.mesh.geometry = [polygons |-> <<>>]
        /\ IF last.mesh.meta.has_clut
           THEN /\ last.mesh.clut = fft_clut_read(SpanAtPointer(68)).clut
                /\ last.mesh.clut.rows[0].colors[1] =
                     LeValue(SubSeq(span.data, HeaderPointerAt(68) + 3,
                                    HeaderPointerAt(68) + 4))
           ELSE \A i, j \in 0..15 : last.mesh.clut.rows[i].colors[j] = 0
        /\ IF last.mesh.meta.has_lighting
           THEN /\ last.mesh.lighting =
                     fft_lighting_read(SpanAtPointer(100)).lighting
                /\ last.mesh.lighting.unknown_c =
                     span.data[HeaderPointerAt(100) + 48]
           ELSE last.mesh.lighting = ZeroLighting
        /\ IF last.mesh.meta.has_terrain
           THEN /\ last.mesh.terrain \in
                     { t.terrain : t \in fft_terrain_read(SpanAtPointer(104)) }
                /\ last.mesh.terrain.valid
                /\ last.mesh.terrain.x_count =
                     span.data[HeaderPointerAt(104) + 1]
           ELSE last.mesh.terrain = ZeroTerrain

C15_Witness ==
    /\ last.op = "fft_mesh_read"
    /\ status = "running"
    /\ last.mesh.meta.has_geometry
    /\ ~last.mesh.meta.has_clut
    /\ ~last.mesh.meta.has_lighting
    /\ last.mesh.meta.has_terrain
    /\ HeaderPointerAt(104) = FFT_MESH_HEADER_SIZE
    /\ HeaderPointerAt(64) > FFT_MESH_HEADER_SIZE
    /\ last.mesh.meta.polygon_count = 4
    /\ last.mesh.terrain.z_count = 1


\* The end of the sub-chunk decoded from the pointer at header offset off.
ChunkEnd(off) ==
    HeaderPointerAt(off) +
        CASE off = 64 ->
                 IF HeaderPointerAt(off) + 8 > span.size
                 THEN 8
                 ELSE GeometrySize(
                        [k \in 1..4 |->
                            LeValue(SubSeq(span.data,
                                       HeaderPointerAt(off) + 2 * k - 1,
                                       HeaderPointerAt(off) + 2 * k))])
          [] off = 68 -> 2 * FFT_CLUT_ROW_COUNT * FFT_CLUT_ROW_WIDTH
          [] off = 100 -> 48
          [] off = 104 ->
                 IF HeaderPointerAt(off) + 2 > span.size
                 THEN 2
                 ELSE 2 + 16 * span.data[HeaderPointerAt(off) + 1]
                             * span.data[HeaderPointerAt(off) + 2]

(* The resource is shorter than the header, or a non-zero pointer or the   *)
(* sub-chunk decoded from it extends past the end of the resource.         *)
MeshOverrun ==
    \/ span.size < 196
    \/ \E off \in {64, 68, 100, 104} :
          /\ HeaderBytesAt(off) # <<0, 0, 0, 0>>
          /\ \/ HeaderPointerAt(off) > span.size
             \/ ChunkEnd(off) > span.size

(* C16: fft_mesh_read on a resource that is shorter than the 196-byte      *)
(* header, or in which a non-zero pointer or a decoded sub-chunk extends   *)
(* past the end, ends in the fatal out-of-bounds failure and returns no    *)
(* mesh.                                                                   *)
C16_OverrunIsFatal ==
    (last.op = "fft_mesh_read" /\ MeshOverrun) =>
        /\ status = "fatal"
        /\ last.error \in {OutOfBoundsRead, SeekOutOfBounds}

(* What the code keeps of it: a resource that holds the whole header never *)
(* yields a mesh when a pointer or a sub-chunk overruns it.                *)
MeshOverrunBehindHeader ==
    (last.op = "fft_mesh_read" /\ MeshOverrun /\ span.size >= 196) =>
        /\ status = "fatal"
        /\ last.error \in {OutOfBoundsRead, SeekOutOfBounds}


---------------------------------------------------------------------------
(* Texture and Map Data Implementation.                                    *)
(*                                                                         *)
(* A texture file is 128 KiB and the image expanded from it 1 MiB.  The    *)
(* map loader reads neither the file's bytes nor the image's pixels again, *)
(* and they are not kept: a texture's file span and image have their       *)
(* sizes, their allocations and an empty data sequence.                    *)

FFT_TEXTURE_WIDTH == 256

FFT_TEXTURE_HEIGHT == 1024

\* 0x2F01
FFT_RECORDTYPE_MESH_OVERRIDE == 12033

\* 0x3001
FFT_RECORDTYPE_MESH_ALT == 12289

\* fft_mesh_t alt_meshes[20]
AltMeshesCapacity == 20

\* fft_texture_t textures[20]
TexturesCapacity == 20

(* sizeof(fft_map_data_t) as gcc lays it out for x86-64.  textures[19]     *)
(* ends at offset 3158200, where record_count, texture_count and           *)
(* alt_mesh_count follow in the next three bytes.                          *)
SizeofMapData == 3158208

\* A uint32_t below 2^31 as a number.
U32Int(v) == v.hi * 65536 + v.lo

(* fft_io_read(sector_start, size) without the bytes: its assertions (the  *)
(* seek and the full sector read of each of its iterations) and its        *)
(* allocation; the span has the size and no data.                          *)
fft_io_read_unkept(d, m, sector_start, size) ==
    [status |-> IF \A i \in 0..(OccupiedSectors(size) - 1) :
                      /\ SeekTo(sector_start, i) >= 0
                      /\ SeekTo(sector_start, i) + FFT_IO_SECTOR_SIZE <= d.len
                THEN "running" ELSE "fatal",
     mem    |-> fft_mem_alloc(m, size, NULL),
     span   |-> [data |-> <<>>, size |-> size, offset |-> 0]]

\* fft_io_open(file): the catalog entry of that name, read whole.
fft_io_open(d, m, name) ==
    fft_io_read(d, m,
        fft_io_file_list[CHOOSE i \in 1..F_FILE_COUNT :
                            fft_io_file_list[i].name = name].sector,
        fft_io_file_list[CHOOSE i \in 1..F_FILE_COUNT :
                            fft_io_file_list[i].name = name].size)

\* fft_io_close(span): the ledger after the span's buffer is freed.
fft_io_close(m, s) == fft_mem_free(m, s.size)

(* fft_image_read_4bpp(span, width, height) without the bytes: the         *)
(* allocation, then width * height / 2 reads of one byte, of which the     *)
(* first that does not fit asserts.                                        *)
fft_image_read_4bpp_unkept(s, m, width, height) ==
    IF s.offset + (width * height) \div 2 <= s.size
    THEN [status |-> "running",
          image  |-> [width |-> width, height |-> height,
                      size |-> width * height * 4,
                      data |-> [ptr |-> "heap", bytes |-> <<>>],
                      valid |-> TRUE],
          span   |-> [s EXCEPT !.offset = @ + (width * height) \div 2],
          mem    |-> fft_mem_alloc(m, width * height * 4, NULL)]
    ELSE [status |-> "fatal", image |-> NoImage,
          span   |-> [s EXCEPT !.offset = Max(s.offset, s.size)],
          mem    |-> fft_mem_alloc(m, width * height * 4, NULL)]

\* fft_texture_read(span, state): [status, texture, span, mem].
fft_texture_read(s, m, state) ==
    [status  |-> fft_image_read_4bpp_unkept(
                    s, m, FFT_TEXTURE_WIDTH, FFT_TEXTURE_HEIGHT).status,
     texture |-> [state |-> state,
                  image |-> fft_image_read_4bpp_unkept(
                    s, m, FFT_TEXTURE_WIDTH, FFT_TEXTURE_HEIGHT).image],
     span    |-> fft_image_read_4bpp_unkept(
                    s, m, FFT_TEXTURE_WIDTH, FFT_TEXTURE_HEIGHT).span,
     mem     |-> fft_image_read_4bpp_unkept(
                    s, m, FFT_TEXTURE_WIDTH, FFT_TEXTURE_HEIGHT).mem]

\* fft_texture_destroy(texture): the ledger after fft_image_destroy.
fft_texture_destroy(texture, m) == fft_image_destroy(texture.image, m).mem

\* fft_default_state: FFT_TIME_DAY, FFT_WEATHER_NONE, layout 0.
fft_default_state == [time |-> 0, weather |-> 0, layout |-> 0]

\* fft_state_is_equal(a, b)
fft_state_is_equal(a, b) ==
    a.time = b.time /\ a.weather = b.weather /\ a.layout = b.layout

\* fft_state_is_default(map_state)
fft_state_is_default(map_state) ==
    fft_state_is_equal(fft_default_state, map_state)

\* fft_map_list[map_id].entry, as the name of the catalog entry.
fft_map_list(map_id) ==
    CASE map_id = 1 -> "MAP/MAP001.GNS"
      [] map_id = 2 -> "MAP/MAP002.GNS"


(* The forms without the bytes agree with the loops they stand for: in     *)
(* every state of the sector-reader specification a read has the status,   *)
(* the ledger and the span size of fft_io_read, and in every state of the  *)
(* image specification an expansion has the status, the cursor, the ledger *)
(* and the image header of fft_image_read_4bpp.                            *)
IoReadUnkeptAgrees ==
    \A sector_start \in IoSectors, size \in IoSizes :
        /\ fft_io_read_unkept(disc, mem, sector_start, size).status
             = fft_io_read(disc, mem, sector_start, size).status
        /\ fft_io_read_unkept(disc, mem, sector_start, size).span.size
             = fft_io_read(disc, mem, sector_start, size).span.size
        /\ fft_io_read_unkept(disc, mem, sector_start, size).mem
             = fft_io_read(disc, mem, sector_start, size).mem

ImageUnkeptAgrees ==
    \A width, height \in 0..MaxDim :
        /\ fft_image_read_4bpp_unkept(span, mem, width, height).status
             = fft_image_read_4bpp(span, mem, width, height).status
        /\ fft_image_read_4bpp_unkept(span, mem, width, height).span
             = fft_image_read_4bpp(span, mem, width, height).span
        /\ fft_image_read_4bpp_unkept(span, mem, width, height).mem
             = fft_image_read_4bpp(span, mem, width, height).mem
        /\ [fft_image_read_4bpp_unkept(span, mem, width, height).image
              EXCEPT !.data.bytes = <<>>]
             = [fft_image_read_4bpp(span, mem, width, height).image
                  EXCEPT !.data.bytes = <<>>]


---------------------------------------------------------------------------
(* Map Data Implementation.                                                *)

\* fft_texture_t as calloc leaves it.
ZeroTexture == [state |-> ZeroState, image |-> NoImage]

(* *map_data as FFT_MEM_ALLOC (calloc) returns it.  records is the         *)
(* sequence of the elements fft_record_read_all stored, records[i] of the  *)
(* code is its element i + 1.  behind is what lies where textures[20]      *)
(* would be: its first three bytes are record_count, texture_count and     *)
(* alt_mesh_count, its last 40 bytes are behind the allocation.            *)
ZeroMapData ==
    [ptr |-> "heap", records |-> <<>>,
     primary_mesh |-> ZeroMesh, override_mesh |-> ZeroMesh,
     alt_meshes |-> [k \in 0..(AltMeshesCapacity - 1) |-> ZeroMesh],
     textures |-> [k \in 0..(TexturesCapacity - 1) |-> ZeroTexture],
     behind |-> ZeroTexture,
     record_count |-> 0, texture_count |-> 0, alt_mesh_count |-> 0]

(* The message of the assertion fft_io_read ends in when the disc image    *)
(* has no full sector for it (its seek assertion needs a sector above      *)
(* 913045, which no 16-bit record sector and no catalog entry is).         *)
IoReadError == "Failed to read correct number of bytes from sector"

(* The state of fft_map_data_read between two statements: the status, the  *)
(* message of the assertion it ended in, the ledger, *map_data, the        *)
(* indices of textures[] and alt_meshes[] stored to so far, the number of  *)
(* records the loop has started on, and the loop's i.                      *)
MapStart(m) ==
    [status |-> "running", error |-> NoValue, mem |-> m,
     map |-> ZeroMapData, texture_stores |-> <<>>, alt_mesh_stores |-> <<>>,
     visited |-> 0, i |-> 0]

\* The call ends in an assertion, with the ledger m.
MapFatal(ms, m, st, error) ==
    [ms EXCEPT !.status = st, !.error = error, !.mem = m]

(* map_data->textures[map_data->texture_count++] = texture.  Nothing       *)
(* bounds the index.  The store at index 20 is behind the array: it puts   *)
(* the low three bytes of texture.state.time over record_count,            *)
(* texture_count and alt_mesh_count and the texture's last 40 bytes behind *)
(* the allocation; the increment lands before the copy (texture_count 0)   *)
(* or after it (texture_count 21), or the write faults.  A store further   *)
(* behind is all outside the allocation: it faults or overwrites memory    *)
(* the model does not follow ("corrupted").                                *)
MapTextureStore(ms, texture) ==
    IF ms.map.texture_count < TexturesCapacity
    THEN {[ms EXCEPT !.map.textures[ms.map.texture_count] = texture,
                     !.map.texture_count = @ + 1,
                     !.texture_stores = Append(@, ms.map.texture_count)]}
    ELSE IF ms.map.texture_count = TexturesCapacity
    THEN {[ms EXCEPT !.status = "crashed",
                     !.texture_stores = Append(@, ms.map.texture_count)]}
         \cup
         {[ms EXCEPT !.map.behind = texture,
                     !.map.record_count = texture.state.time % 256,
                     !.map.texture_count = c,
                     !.map.alt_mesh_count = 0,
                     !.texture_stores = Append(@, ms.map.texture_count)]
            : c \in {0, TexturesCapacity + 1}}
    ELSE {[ms EXCEPT !.status = st,
                     !.texture_stores = Append(@, ms.map.texture_count)]
            : st \in {"crashed", "corrupted"}}

\* fft_io_close(file), then the store.
MapTextureClose(ms, f, t) ==
    IF t.status # "running"
    THEN {MapFatal(ms, t.mem, t.status, OutOfBoundsRead)}
    ELSE MapTextureStore([ms EXCEPT !.mem = fft_io_close(t.mem, f.span)],
                         t.texture)

\* texture = fft_texture_read(&file, record->state)
MapTextureRead(ms, record, f) ==
    IF f.status # "running"
    THEN {MapFatal(ms, f.mem, f.status, IoReadError)}
    ELSE MapTextureClose(ms, f, fft_texture_read(f.span, f.mem, record.state))

\* case FFT_RECORDTYPE_TEXTURE: file = fft_io_read(sector, length)
MapTextureFile(d, ms, record) ==
    MapTextureRead(ms, record,
        fft_io_read_unkept(d, ms.mem, record.sector, U32Int(record.length)))

\* The primary mesh assigned only while none has been assigned.
MapPrimaryMesh_first(ms, i, f, meshes) ==
    { IF r.status # "running"
      THEN MapFatal(ms, f.mem, r.status, r.error)
      ELSE [ms EXCEPT !.mem = fft_io_close(f.mem, f.span),
                      !.map.primary_mesh =
                          IF @ = ZeroMesh THEN r.mesh ELSE @,
                      !.map.records[i + 1].meta = r.mesh.meta]
        : r \in meshes }

(* map_data->primary_mesh = fft_mesh_read(&file); fft_io_close(file);      *)
(* record->meta = map_data->primary_mesh.meta, for each outcome of the     *)
(* mesh read.                                                              *)
MapPrimaryMesh(ms, i, f, meshes) ==
    { IF r.status # "running"
      THEN MapFatal(ms, f.mem, r.status, r.error)
      ELSE [ms EXCEPT !.mem = fft_io_close(f.mem, f.span),
                      !.map.primary_mesh = r.mesh,
                      !.map.records[i + 1].meta = r.mesh.meta]
        : r \in meshes }

\* FFT_ASSERT(fft_state_is_default(record->state), ...)
MapPrimaryAssert(ms, i, f) ==
    IF f.status # "running"
    THEN {MapFatal(ms, f.mem, f.status, IoReadError)}
    ELSE IF ~fft_state_is_default(ms.map.records[i + 1].state)
    THEN {MapFatal(ms, f.mem, "fatal",
                   "Primary mesh file has non-default state")}
    ELSE MapPrimaryMesh(ms, i, f, fft_mesh_read(f.span))

\* case FFT_RECORDTYPE_MESH_PRIMARY: file = fft_io_read(sector, length)
MapPrimaryFile(d, ms, i) ==
    MapPrimaryAssert(ms, i,
        fft_io_read(d, ms.mem, ms.map.records[i + 1].sector,
                    U32Int(ms.map.records[i + 1].length)))

(* alt_mesh.state = record->state;                                         *)
(* map_data->alt_meshes[map_data->alt_mesh_count++] = alt_mesh;            *)
(* record->meta = map_data->primary_mesh.meta.  Nothing bounds the index.  *)
(* alt_meshes[20] would lie over textures[], the three counts and 142172   *)
(* bytes behind the allocation: the store faults or overwrites memory the  *)
(* model does not follow ("corrupted").                                    *)
MapAltStore(ms, i, alt_mesh) ==
    IF ms.map.alt_mesh_count < AltMeshesCapacity
    THEN {[ms EXCEPT !.map.alt_meshes[ms.map.alt_mesh_count] = alt_mesh,
                     !.map.alt_mesh_count = @ + 1,
                     !.map.records[i + 1].meta = ms.map.primary_mesh.meta,
                     !.alt_mesh_stores = Append(@, ms.map.alt_mesh_count)]}
    ELSE {[ms EXCEPT !.status = st,
                     !.alt_mesh_stores = Append(@, ms.map.alt_mesh_count)]
            : st \in {"crashed", "corrupted"}}

\* alt_mesh = fft_mesh_read(&file); fft_io_close(file); then the store.
MapAltMesh(ms, i, f, meshes) ==
    UNION { IF r.status # "running"
            THEN {MapFatal(ms, f.mem, r.status, r.error)}
            ELSE MapAltStore(
                    [ms EXCEPT !.mem = fft_io_close(f.mem, f.span)], i,
                    [r.mesh EXCEPT !.state = ms.map.records[i + 1].state])
              : r \in meshes }

MapAltRead(ms, i, f) ==
    IF f.status # "running"
    THEN {MapFatal(ms, f.mem, f.status, IoReadError)}
    ELSE MapAltMesh(ms, i, f, fft_mesh_read(f.span))

\* case FFT_RECORDTYPE_MESH_ALT: file = fft_io_read(sector, length)
MapAltFile(d, ms, i) ==
    MapAltRead(ms, i,
        fft_io_read(d, ms.mem, ms.map.records[i + 1].sector,
                    U32Int(ms.map.records[i + 1].length)))

(* map_data->override_mesh = fft_mesh_read(&file); fft_io_close(file);     *)
(* record->meta = map_data->primary_mesh.meta.                             *)
MapOverrideMesh(ms, i, f, meshes) ==
    { IF r.status # "running"
      THEN MapFatal(ms, f.mem, r.status, r.error)
      ELSE [ms EXCEPT !.mem = fft_io_close(f.mem, f.span),
                      !.map.override_mesh = r.mesh,
                      !.map.records[i + 1].meta = ms.map.primary_mesh.meta]
        : r \in meshes }

MapOverrideAssert(ms, i, f) ==
    IF f.status # "running"
    THEN {MapFatal(ms, f.mem, f.status, IoReadError)}
    ELSE IF ~fft_state_is_default(ms.map.records[i + 1].state)
    THEN {MapFatal(ms, f.mem, "fatal", "Override must be default map state")}
    ELSE MapOverrideMesh(ms, i, f, fft_mesh_read(f.span))

\* case FFT_RECORDTYPE_MESH_OVERRIDE: file = fft_io_read(sector, length)
MapOverrideFile(d, ms, i) ==
    MapOverrideAssert(ms, i,
        fft_io_read(d, ms.mem, ms.map.records[i + 1].sector,
                    U32Int(ms.map.records[i + 1].length)))

\* switch (record->type) on record = &map_data->records[i]
MapRecord(d, ms, i) ==
    CASE ms.map.records[i + 1].type = FFT_RECORDTYPE_TEXTURE ->
            MapTextureFile(d, ms, ms.map.records[i + 1])
      [] ms.map.records[i + 1].type = FFT_RECORDTYPE_MESH_PRIMARY ->
            MapPrimaryFile(d, ms, i)
      [] ms.map.records[i + 1].type = FFT_RECORDTYPE_MESH_ALT ->
            MapAltFile(d, ms, i)
      [] ms.map.records[i + 1].type = FFT_RECORDTYPE_MESH_OVERRIDE ->
            MapOverrideFile(d, ms, i)
      [] OTHER -> {ms}

(* A pass of for (i = 0; i < map_data->record_count; i++) on the state ms, *)
(* whose field i is the loop's i: the test (the bound is read from         *)
(* *map_data every time), and when it passes the body and i++.  A state    *)
(* that has left the loop (the test failed, or the call ended) stays as    *)
(* it is.                                                                  *)
MapLoopLeft(ms) == ms.status # "running" \/ ~(ms.i < ms.map.record_count)

MapRecordStep(d, ms) ==
    IF MapLoopLeft(ms)
    THEN {ms}
    ELSE { [x EXCEPT !.i = IF x.status = "running" THEN @ + 1 ELSE @]
             : x \in MapRecord(d, [ms EXCEPT !.visited = ms.i + 1], ms.i) }

\* n >= 1 passes of the loop from each of the states mss, in two halves.
RECURSIVE MapRecordPasses(_, _, _)
MapRecordPasses(d, mss, n) ==
    IF n = 1
    THEN UNION { MapRecordStep(d, ms) : ms \in mss }
    ELSE MapRecordPasses(d, MapRecordPasses(d, mss, n \div 2), n - n \div 2)

(* The loop from the states mss on: passes (n of them, then 2n, ...) until *)
(* every state has left the loop.                                          *)
RECURSIVE MapRecordLoop(_, _, _)
MapRecordLoop(d, mss, n) ==
    IF \A ms \in mss : MapLoopLeft(ms)
    THEN mss
    ELSE MapRecordLoop(d, MapRecordPasses(d, mss, n), 2 * n)

\* fft_io_close(gns), then the loop, for each outcome of fft_record_read_all.
MapRecords(d, gns, reads) ==
    UNION { IF r.status # "running"
            THEN {MapFatal(MapStart(gns.mem), gns.mem, r.status,
                           OutOfBoundsRead)}
            ELSE MapRecordLoop(d,
                    {[MapStart(fft_io_close(gns.mem, gns.span))
                        EXCEPT !.map.records = r.out_records,
                               !.map.record_count = r.count]}, 1)
              : r \in reads }

\* map_data->record_count = fft_record_read_all(&gns, map_data->records)
MapOpened(d, gns) ==
    IF gns.status # "running"
    THEN {MapFatal(MapStart(gns.mem), gns.mem, gns.status, IoReadError)}
    ELSE MapRecords(d, gns, fft_record_read_all(gns.span))

(* fft_map_data_read(map_id) on the disc image d with the ledger m: the    *)
(* SET of [status, error, mem, map, texture_stores, alt_mesh_stores,       *)
(* visited, i]; map is what the call returns when status is "running".     *)
fft_map_data_read(d, m, map_id) ==
    MapOpened(d, fft_io_open(d, fft_mem_alloc(m, SizeofMapData, NULL),
                             fft_map_list(map_id)))

(* The texture loop of fft_map_data_destroy from iteration i on, then      *)
(* FFT_MEM_FREE(map).  textures[20] is read from behind the array: the     *)
(* read faults, or gives what the store there left.                        *)
RECURSIVE MapDestroyLoop(_, _, _)
MapDestroyLoop(mp, m, i) ==
    IF ~(i < mp.texture_count)
    THEN {[status |-> "running", mem |-> fft_mem_free(m, SizeofMapData)]}
    ELSE IF i < TexturesCapacity
    THEN MapDestroyLoop(mp, fft_texture_destroy(mp.textures[i], m), i + 1)
    ELSE IF i = TexturesCapacity
    THEN {[status |-> "crashed", mem |-> m]}
         \cup MapDestroyLoop(mp, fft_texture_destroy(mp.behind, m), i + 1)
    ELSE {[status |-> "crashed", mem |-> m]}

\* fft_map_data_destroy(map): the SET of [status, mem].
fft_map_data_destroy(mp, m) ==
    IF mp.ptr = NULL
    THEN {[status |-> "running", mem |-> m]}
    ELSE MapDestroyLoop(mp, m, 0)


---------------------------------------------------------------------------
(* The map specification: a disc image that holds the directory of map 1,  *)
(* a small directory of map 2, two mesh resources and room for a texture   *)
(* resource; then fft_map_data_read of either map and                      *)
(* fft_map_data_destroy.                                                   *)

\* Most texture records of a modelled directory (one past textures[]).
MaxTextureRecords == 21

\* Most alt-mesh records of a modelled directory (one past alt_meshes[]).
MaxAltRecords == 21

\* The start sectors of MAP/MAP001.GNS and MAP/MAP002.GNS in the catalog.
Map1Sector == 11304

Map2Sector == 12656

\* The sizes of MAP/MAP001.GNS and MAP/MAP002.GNS in the catalog.
Map1Size == 2388

Map2Size == 2288

\* The start sectors of the resources the directories name.
MeshASector == Map1Sector + 2

MeshBSector == Map1Sector + 3

TextureSector == Map1Sector + 4

\* The size of a texture resource: 256 * 1024 pixels of 4 bits.
TextureFileSize == (FFT_TEXTURE_WIDTH * FFT_TEXTURE_HEIGHT) \div 2

\* Mesh resource A: a header that points to a lighting chunk of three lights.
MeshA ==
    MeshBytes({"lighting"}, <<"geometry", "clut", "lighting", "terrain">>,
              "inside", MeshSize)

\* Mesh resource B: a header with no chunk.
MeshB ==
    MeshBytes({}, <<"geometry", "clut", "lighting", "terrain">>,
              "inside", FFT_MESH_HEADER_SIZE)

\* The 20 bytes of a directory record.
MapSlot(type, layout, tw, sector, length) ==
    <<34, 0, layout, tw, type % 256, type \div 256, 0, 0,
      sector % 256, sector \div 256, 0, 0>>
        \o U32Bytes(length) \o <<0, 0, 0, 0>>

(* The records the directories are made of: primary meshes A and B of      *)
(* default state, a primary mesh of state night and one of layout 1, an    *)
(* override mesh by day and by night, textures by day and by night, a      *)
(* texture one byte short, alt meshes, and a record of no known type.      *)
SlotOf(kind) ==
    CASE kind = "primaryA" ->
            MapSlot(FFT_RECORDTYPE_MESH_PRIMARY, 0, 0, MeshASector, MeshSize)
      [] kind = "primaryB" ->
            MapSlot(FFT_RECORDTYPE_MESH_PRIMARY, 0, 0, MeshBSector,
                    FFT_MESH_HEADER_SIZE)
      [] kind = "primaryNight" ->
            MapSlot(FFT_RECORDTYPE_MESH_PRIMARY, 0, 128, MeshASector, MeshSize)
      [] kind = "primaryLayout" ->
            MapSlot(FFT_RECORDTYPE_MESH_PRIMARY, 1, 0, MeshASector, MeshSize)
      [] kind = "override" ->
            MapSlot(FFT_RECORDTYPE_MESH_OVERRIDE, 0, 0, MeshBSector,
                    FFT_MESH_HEADER_SIZE)
      [] kind = "overrideNight" ->
            MapSlot(FFT_RECORDTYPE_MESH_OVERRIDE, 0, 128, MeshBSector,
                    FFT_MESH_HEADER_SIZE)
      [] kind = "texture" ->
            MapSlot(FFT_RECORDTYPE_TEXTURE, 0, 0, TextureSector,
                    TextureFileSize)
      [] kind = "textureNight" ->
            MapSlot(FFT_RECORDTYPE_TEXTURE, 0, 144, TextureSector,
                    TextureFileSize)
      [] kind = "textureShort" ->
            MapSlot(FFT_RECORDTYPE_TEXTURE, 0, 0, TextureSector,
                    TextureFileSize - 1)
      [] kind = "altA" ->
            MapSlot(FFT_RECORDTYPE_MESH_ALT, 1, 144, MeshASector, MeshSize)
      [] kind = "altB" ->
            MapSlot(FFT_RECORDTYPE_MESH_ALT, 0, 16, MeshBSector,
                    FFT_MESH_HEADER_SIZE)
      [] kind = "other" ->
            MapSlot(4660, 0, 0, MeshASector, MeshSize)

\* n records of one kind.
Rep(kind, n) == [k \in 1..n |-> kind]

\* The numbers of texture and of alt-mesh records in a directory.
TextureCounts ==
    {1, 2, TexturesCapacity - 1, TexturesCapacity, MaxTextureRecords}

AltCounts ==
    {1, AltMeshesCapacity - 1, AltMeshesCapacity, MaxAltRecords}

(* The directories of map 1, as the kinds of their records: few records    *)
(* of each kind and order, and runs of textures and of alt meshes up to    *)
(* and past the capacity of textures[] and alt_meshes[].                   *)
MapDirectories ==
    { <<>>, <<"primaryA">>, <<"primaryB">>,
      <<"primaryA", "primaryB">>, <<"primaryB", "primaryA">>,
      <<"primaryNight">>, <<"primaryLayout">>, <<"primaryA", "primaryNight">>,
      <<"primaryA", "override">>, <<"override", "primaryA">>,
      <<"primaryA", "overrideNight">>,
      <<"primaryA", "other", "texture", "altA">>,
      <<"primaryA", "textureShort">>,
      <<"altB", "primaryA", "altA">> }
    \cup { <<"primaryA">> \o Rep("texture", n) : n \in TextureCounts }
    \cup { Rep("textureNight", n) \o <<"primaryB">> : n \in TextureCounts }
    \cup { <<"primaryA">> \o Rep("altB", n) : n \in AltCounts }
    \cup { Rep("texture", TexturesCapacity) \o <<"primaryA", "altA">>
              \o Rep("altB", AltMeshesCapacity - 2) }

\* The bytes of a directory file: the records, the end marker, zeros.
DirectoryFile(kinds, size) ==
    Concat([k \in 1..Len(kinds) |-> SlotOf(kinds[k])]) \o EndSlot
        \o Zeros(size - FFT_RECORD_SIZE * (Len(kinds) + 1))

\* The disc image whose map 1 has the directory kinds.
MapDisc(kinds) ==
    [seed  |-> 0,
     len   |-> (Map2Sector + 2) * FFT_IO_SECTOR_SIZE_RAW,
     files |-> (Map1Sector :> DirectoryFile(kinds, Map1Size))
                 @@ (MeshASector :> MeshA)
                 @@ (MeshBSector :> MeshB)
                 @@ (Map2Sector
                       :> DirectoryFile(<<"primaryB">>, Map2Size))]

\* The maps loaded.
MapIds == {1, 2}

InitMap ==
    /\ \E kinds \in MapDirectories : disc = MapDisc(kinds)
    /\ span = NoSpan
    /\ status = "running"
    /\ last = NoCall
    /\ mem = fft_mem_init
    /\ image = NoImage
    /\ clut = NoImage
    /\ map = NoMap
    /\ allocations_head = <<>>

(* A call of fft_map_data_read(map_id), the first allocation of the run.   *)
(* map is the pointer returned.                                            *)
MapDataRead ==
    /\ status = "running"
    /\ map = NoMap
    /\ mem.allocations_total = 0
    /\ \E map_id \in MapIds :
         \E r \in fft_map_data_read(disc, mem, map_id) :
            /\ status' = r.status
            /\ mem' = r.mem
            /\ map' = (IF r.status = "running" THEN r.map ELSE map)
            /\ last' = [op |-> "fft_map_data_read", map_id |-> map_id,
                        pre_mem |-> mem, error |-> r.error,
                        records |-> r.map.records,
                        texture_stores |-> r.texture_stores,
                        alt_mesh_stores |-> r.alt_mesh_stores,
                        visited |-> r.visited]
    /\ UNCHANGED <<span, disc, image, clut, allocations_head>>

(* A call of fft_map_data_destroy(map), on NULL or on what                 *)
(* fft_map_data_read returned.  read_mem is the ledger before that read.   *)
MapDataDestroy ==
    /\ status = "running"
    /\ last.op # "fft_map_data_destroy"
    /\ \E r \in fft_map_data_destroy(map, mem) :
         /\ status' = r.status
         /\ mem' = r.mem
         /\ map' = (IF map.ptr = NULL THEN map ELSE [ptr |-> "freed"])
         /\ last' = [op |-> "fft_map_data_destroy", map |-> map,
                     pre_mem |-> mem,
                     read_mem |-> IF map.ptr = NULL THEN mem
                                  ELSE last.pre_mem]
    /\ UNCHANGED <<span, disc, image, clut, allocations_head>>

NextMap == MapDataRead \/ MapDataDestroy

SpecMap == InitMap /\ [][NextMap]_vars


---------------------------------------------------------------------------
(* Claims on fft_map_data_read and fft_map_data_destroy.                   *)

\* The indices (from 1) of the primary-mesh records among the first n.
PrimaryRecords(records, n) ==
    { k \in 1..n : records[k].type = FFT_RECORDTYPE_MESH_PRIMARY }

\* The meshes fft_mesh_read can return for the resource a record names.
MeshesOf(record) ==
    { r.mesh : r \in { x \in fft_mesh_read(
                                fft_io_read(disc, fft_mem_init, record.sector,
                                            U32Int(record.length)).span) :
                         x.status = "running" } }

\* The least and the greatest element of a non-empty set of numbers.
Least(S) == CHOOSE k \in S : \A j \in S : k <= j

Greatest(S) == CHOOSE k \in S : \A j \in S : k >= j

(* C18, as stated: after fft_map_data_read returns, primary_mesh is the    *)
(* decode of the FIRST primary-mesh record the loop came to, and a         *)
(* primary-mesh record of non-default state makes the read fatal.          *)
C18_FirstPrimary ==
    last.op = "fft_map_data_read" =>
        /\ (status = "running"
              /\ PrimaryRecords(last.records, last.visited) # {})
             => map.primary_mesh \in MeshesOf(
                   last.records[Least(PrimaryRecords(last.records,
                                                     last.visited))])
        /\ (\E k \in PrimaryRecords(last.records, last.visited) :
               ~fft_state_is_default(last.records[k].state))
             => status = "fatal"

(* C18, amended: after fft_map_data_read returns, primary_mesh is the      *)
(* decode of the LAST primary-mesh record the loop came to (each one       *)
(* overwrites primary_mesh), and a primary-mesh record of non-default      *)
(* state makes the read fatal.                                             *)
C18_LastPrimary ==
    last.op = "fft_map_data_read" =>
        /\ (status = "running"
              /\ PrimaryRecords(last.records, last.visited) # {})
             => map.primary_mesh \in MeshesOf(
                   last.records[Greatest(PrimaryRecords(last.records,
                                                        last.visited))])
        /\ (\E k \in PrimaryRecords(last.records, last.visited) :
               ~fft_state_is_default(last.records[k].state))
             => status = "fatal"

(* A read that returned after two primary-mesh records whose resources     *)
(* decode to different meshes.                                             *)
C18_Witness ==
    /\ last.op = "fft_map_data_read"
    /\ status = "running"
    /\ Cardinality(PrimaryRecords(last.records, last.visited)) >= 2
    /\ MeshesOf(last.records[Least(PrimaryRecords(last.records,
                                                  last.visited))])
         # MeshesOf(last.records[Greatest(PrimaryRecords(last.records,
                                                         last.visited))])
    /\ map.primary_mesh.meta.has_lighting

(* C19: fft_map_data_read stores to textures[] and alt_meshes[] at indices *)
(* below 20 only, and returns with texture_count <= 20 and                 *)
(* alt_mesh_count <= 20.                                                   *)
C19_ListsBounded ==
    last.op = "fft_map_data_read" =>
        /\ \A k \in 1..Len(last.texture_stores) :
              last.texture_stores[k] < TexturesCapacity
        /\ \A k \in 1..Len(last.alt_mesh_stores) :
              last.alt_mesh_stores[k] < AltMeshesCapacity
        /\ status = "running" =>
              /\ map.texture_count <= TexturesCapacity
              /\ map.alt_mesh_count <= AltMeshesCapacity

(* C20: after fft_map_data_read and fft_map_data_destroy of its result the *)
(* ledger's allocations_current and usage_current are what they were       *)
(* before the read.                                                        *)
C20_TeardownBalanced ==
    (last.op = "fft_map_data_destroy" /\ last.map.ptr # NULL) =>
        /\ status = "running"
        /\ mem.allocations_current = last.read_mem.allocations_current
        /\ mem.usage_current = last.read_mem.usage_current

(* Within the capacity of textures[] the teardown is balanced: when the    *)
(* read stored no texture behind the array, the destroy returns and the    *)
(* ledger is as before the read.                                           *)
TeardownBalancedWithinCapacity ==
    (last.op = "fft_map_data_destroy" /\ last.map.ptr # NULL
        /\ last.map.behind = ZeroTexture) =>
        /\ status = "running"
        /\ mem.allocations_current = last.read_mem.allocations_current
        /\ mem.usage_current = last.read_mem.usage_current

---------------------------------------------------------------------------
(* Memory Implementation: the ledger under the calls of src/test.c          *)
(* (test_mem_basic_alloc_free, test_mem_free_null, test_mem_peak_tracking,  *)
(* test_mem_total_tracking, test_mem_alloc_with_tag).  A pointer is a       *)
(* number, 0 the null pointer; the n-th allocation since fft_mem_init is    *)
(* at pointer n.  allocations_head is the linked list as a sequence of      *)
(* headers [ptr, size, tag], newest first.                                  *)

\* Allocations made in one run of the memory specification.
MaxAllocs == 4

\* The sizes asked for: none, and those of the tests.
AllocSizes == {0, 25, 50, 100}

\* The tags: FFT_MEM_ALLOC passes NULL, FFT_MEM_ALLOC_TAG a string.
AllocTags == {NULL, "test_buffer"}

\* header = ((fft_mem_alloc_header_t*)ptr) - 1, for a live pointer.
HeaderOf(head, ptr) ==
    head[CHOOSE i \in 1..Len(head) : head[i].ptr = ptr]

(* fft_mem_free's walk of the list: the first header that is the freed one *)
(* is unlinked; a list without it is left as it is.                        *)
AllocationsUnlink(head, ptr) ==
    IF \E i \in 1..Len(head) : head[i].ptr = ptr
    THEN LET i == CHOOSE k \in 1..Len(head) :
                      /\ head[k].ptr = ptr
                      /\ \A j \in 1..(k - 1) : head[j].ptr # ptr
         IN  SubSeq(head, 1, i - 1) \o SubSeq(head, i + 1, Len(head))
    ELSE head

\* The pointers the caller holds that are live, with their sizes.
Live == IF last.op = "none" THEN {} ELSE last.live

(* What the caller has seen since fft_mem_init: the largest usage_current, *)
(* the sum of the sizes asked for and the number of allocations.           *)
Seen ==
    IF last.op = "none" THEN [peak |-> 0, sizes |-> 0, count |-> 0]
    ELSE last.seen

InitMem ==
    /\ span = NoSpan
    /\ status = "running"
    /\ last = NoCall
    /\ disc = NoDisc
    /\ mem = fft_mem_init
    /\ image = NoImage
    /\ clut = NoImage
    /\ map = NoMap
    /\ allocations_head = <<>>

(* fft_mem_init() again, as every test of src/test.c begins: made when the *)
(* test before has freed what it allocated.  The list is not touched.      *)
MemInit ==
    /\ status = "running"
    /\ last.op # "none"
    /\ Live = {}
    /\ mem' = fft_mem_init
    /\ last' = NoCall
    /\ UNCHANGED <<span, status, disc, image, clut, map, allocations_head>>

(* ptr = fft_mem_alloc(size, file, line, tag).  calloc either returns a    *)
(* block or NULL; on NULL the assertion ends the program.                  *)
MemAlloc ==
    /\ status = "running"
    /\ Seen.count < MaxAllocs
    /\ \E size \in AllocSizes, tag \in AllocTags, calloc \in {"block", "NULL"} :
         IF calloc = "NULL"
         THEN /\ status' = "fatal"
              /\ last' = [op |-> "fft_mem_alloc", size |-> size, ptr |-> 0,
                          error |-> "Failed to allocate memory",
                          pre_mem |-> mem, live |-> Live, seen |-> Seen]
              /\ UNCHANGED <<mem, allocations_head>>
         ELSE LET ptr == Seen.count + 1
                  m == fft_mem_alloc(mem, size, tag)
              IN  /\ mem' = m
                  /\ allocations_head' =
                       <<[ptr |-> ptr, size |-> size, tag |-> tag]>>
                           \o allocations_head
                  /\ status' = status
                  /\ last' = [op |-> "fft_mem_alloc", size |-> size,
                              ptr |-> ptr, error |-> "",
                              pre_mem |-> mem,
                              live |-> Live \cup {[ptr |-> ptr, size |-> size]},
                              seen |-> [peak |-> Max(Seen.peak, m.usage_current),
                                        sizes |-> Seen.sizes + size,
                                        count |-> Seen.count + 1]]
    /\ UNCHANGED <<span, disc, image, clut, map>>

\* fft_mem_free(ptr) of NULL or of a pointer that is live.
MemFree ==
    /\ status = "running"
    /\ last.op # "none"
    /\ \E ptr \in {0} \cup { l.ptr : l \in Live } :
         IF ptr = 0
         THEN /\ last' = [op |-> "fft_mem_free", size |-> 0, ptr |-> 0,
                          error |-> "", pre_mem |-> mem, live |-> Live,
                          seen |-> Seen]
              /\ UNCHANGED <<mem, allocations_head>>
         ELSE LET header == HeaderOf(allocations_head, ptr)
                  m == fft_mem_free(mem, header.size)
              IN  /\ allocations_head' = AllocationsUnlink(allocations_head, ptr)
                  /\ mem' = m
                  /\ last' = [op |-> "fft_mem_free", size |-> header.size,
                              ptr |-> ptr, error |-> "", pre_mem |-> mem,
                              live |-> { l \in Live : l.ptr # ptr },
                              seen |-> [Seen EXCEPT
                                          !.peak = Max(@, m.usage_current)]]
    /\ UNCHANGED <<span, status, disc, image, clut, map>>

NextMem == MemInit \/ MemAlloc \/ MemFree

SpecMem == InitMem /\ [][NextMem]_vars

---------------------------------------------------------------------------
(* Claim C21.                                                              *)

RECURSIVE SumSizes(_)
SumSizes(S) ==
    IF S = {} THEN 0
    ELSE LET l == CHOOSE x \in S : TRUE IN l.size + SumSizes(S \ {l})

(* C21: after any sequence of fft_mem_alloc and fft_mem_free (of live      *)
(* pointers or NULL) that follows fft_mem_init, allocations_current is the *)
(* number of live allocations, usage_current the sum of their sizes,       *)
(* usage_peak the largest usage_current reached so far, usage_total and    *)
(* allocations_total the sum of the sizes and the count of all allocations *)
(* made; fft_mem_free leaves the peak and the totals as they were, and     *)
(* fft_mem_free(NULL) leaves the whole ledger as it was.                   *)
C21_Ledger ==
    /\ mem.allocations_current = Cardinality(Live)
    /\ mem.usage_current = SumSizes(Live)
    /\ mem.usage_peak = Seen.peak
    /\ mem.usage_total = Seen.sizes
    /\ mem.allocations_total = Seen.count
    /\ last.op = "fft_mem_free" =>
         /\ mem.usage_peak = last.pre_mem.usage_peak
         /\ mem.usage_total = last.pre_mem.usage_total
         /\ mem.allocations_total = last.pre_mem.allocations_total
         /\ last.ptr = 0 => mem = last.pre_mem

(* The case of C21: a free of a live pointer that leaves another live      *)
(* allocation behind, below the peak and below the totals.                 *)
C21_Witness ==
    /\ status = "running"
    /\ last.op = "fft_mem_free"
    /\ last.ptr # 0
    /\ last.size > 0
    /\ mem.allocations_current = 1
    /\ mem.allocations_total = 3
    /\ 0 < mem.usage_current
    /\ mem.usage_current < mem.usage_peak
    /\ mem.usage_peak < mem.usage_total

\* The list of headers holds the live allocations and nothing else.
AllocationsListed ==
    { [ptr |-> allocations_head[i].ptr, size |-> allocations_head[i].size] :
        i \in 1..Len(allocations_head) } = Live

\* The case of fft_mem_free(NULL) with allocations live.
FreeNullWitness ==
    /\ last.op = "fft_mem_free"
    /\ last.ptr = 0
    /\ mem.allocations_current = 2

---------------------------------------------------------------------------
(* Claims C22 .. C26: the polygon array fft_geometry_read returns, set     *)
(* against the bytes of the chunk at the places the format gives them.     *)

\* fft_geometry_read returned.
GeometryDecoded ==
    /\ last.op = "fft_geometry_read"
    /\ status = "running"

TexTris == ChunkCounts[1]

TexQuads == ChunkCounts[2]

UntexTris == ChunkCounts[3]

UntexQuads == ChunkCounts[4]

Textured == TexTris + TexQuads

PolygonCount == TexTris + TexQuads + UntexTris + UntexQuads

\* How many of the first k items fall into a group of n that starts at from.
Within(k, from, n) == Max(0, Min(k - from, n))

\* The i16 and the three i16 of the chunk at byte off.
I16At(off) == AsSigned(LeValue(BytesAt(off, 2)), 16)

XyzOnDisc(off) ==
    [x |-> I16At(off), y |-> I16At(off + 2), z |-> I16At(off + 4)]

\* The byte of the chunk at byte off.
ByteOnDisc(off) == span.data[off + 1]

\* The type the grouping gives polygon k.
GroupType(k) ==
    IF k < TexTris \/ (Textured <= k /\ k < Textured + UntexTris)
    THEN FFT_POLYTYPE_TRIANGLE
    ELSE FFT_POLYTYPE_QUAD

GroupVertices(k) == IF GroupType(k) = FFT_POLYTYPE_TRIANGLE THEN 3 ELSE 4

\* Where the positions of polygon k lie: behind the counts, group by group.
PositionsOffset(k) ==
    last.pre + 8
        + 18 * Within(k, 0, TexTris)
        + 24 * Within(k, TexTris, TexQuads)
        + 18 * Within(k, Textured, UntexTris)
        + 24 * Within(k, Textured + UntexTris, UntexQuads)

\* Where the normals of the textured polygon k lie: behind all positions.
NormalsOffset(k) ==
    PositionsOffset(PolygonCount)
        + 18 * Within(k, 0, TexTris) + 24 * Within(k, TexTris, TexQuads)

\* Where the texture info of the textured polygon k lies.
TexinfoOffset(k) ==
    NormalsOffset(Textured)
        + 10 * Within(k, 0, TexTris) + 12 * Within(k, TexTris, TexQuads)

\* Where the 4 bytes of the untextured polygon k lie.
UntexinfoOffset(k) == TexinfoOffset(Textured) + 4 * (k - Textured)

\* Where the tile location of the textured polygon k lies.
TilesOffset(k) == UntexinfoOffset(PolygonCount) + 2 * k

(* C22: after fft_geometry_read with accepted counts (N, P, Q, R) polygon  *)
(* i is a TRIANGLE for i in [0, N) and [N+P, N+P+Q) and a QUAD for i in    *)
(* [N, N+P) and [N+P+Q, N+P+Q+R): textured triangles, textured quads,      *)
(* untextured triangles, untextured quads, each group contiguous and in    *)
(* the order of the file.                                                  *)
C22_Grouping ==
    GeometryDecoded =>
        /\ DOMAIN last.geometry.polygons = 0..(PolygonCount - 1)
        /\ \A k \in 0..(PolygonCount - 1) :
             /\ last.geometry.polygons[k].type = GroupType(k)
             /\ \A j \in 1..GroupVertices(k) :
                  last.geometry.polygons[k].vertices[j].position =
                      XyzOnDisc(PositionsOffset(k) + 6 * (j - 1))

\* The case of C22: all four groups hold several polygons.
C22_Witness ==
    /\ GeometryDecoded
    /\ TexTris > 1 /\ TexQuads > 1 /\ UntexTris > 1 /\ UntexQuads > 1
    /\ last.geometry.polygons[TexTris].type = FFT_POLYTYPE_QUAD
    /\ last.geometry.polygons[Textured].type = FFT_POLYTYPE_TRIANGLE
    /\ last.geometry.polygons[Textured + UntexTris].type = FFT_POLYTYPE_QUAD
    /\ last.geometry.polygons[Textured + 1].vertices[1].position.x # 0

(* C23: after fft_geometry_read with counts (N, P, Q, R) tex.is_textured   *)
(* is true for every polygon with index below N+P and false for every      *)
(* polygon with index in [N+P, N+P+Q+R).                                   *)
C23_TexturedFlag ==
    GeometryDecoded =>
        \A k \in DOMAIN last.geometry.polygons :
            last.geometry.polygons[k].tex.is_textured = (k < Textured)

\* What the code does instead: the flag is false on every polygon.
TexturedFlagNeverSet ==
    GeometryDecoded =>
        \A k \in DOMAIN last.geometry.polygons :
            ~last.geometry.polygons[k].tex.is_textured

(* C24: fft_geometry_read with counts (N, P, Q, R) reads counts, positions *)
(* of all four groups, normals of the textured, texture info of the        *)
(* textured, untextured info, tile locations of the textured, in this      *)
(* order and each pass from where the one before ended, taking exactly     *)
(* 8 + 6*(3N+4P+3Q+4R) + 6*(3N+4P) + (10N+12P) + 4*(Q+R) + 2*(N+P) bytes   *)
(* from the geometry pointer.                                              *)
C24_PassOrder ==
    GeometryDecoded =>
        /\ span.offset = last.pre + 8
             + 6 * (3 * TexTris + 4 * TexQuads + 3 * UntexTris + 4 * UntexQuads)
             + 6 * (3 * TexTris + 4 * TexQuads)
             + (10 * TexTris + 12 * TexQuads)
             + 4 * (UntexTris + UntexQuads)
             + 2 * (TexTris + TexQuads)
        /\ \A k \in 0..(PolygonCount - 1) :
             LET poly == last.geometry.polygons[k]
             IN  /\ \A j \in 1..GroupVertices(k) :
                      poly.vertices[j].position =
                          XyzOnDisc(PositionsOffset(k) + 6 * (j - 1))
                 /\ k < Textured =>
                      /\ \A j \in 1..GroupVertices(k) :
                           poly.vertices[j].normal =
                               XyzOnDisc(NormalsOffset(k) + 6 * (j - 1))
                      /\ poly.tex.texcoords[1] =
                           [u |-> ByteOnDisc(TexinfoOffset(k)),
                            v |-> ByteOnDisc(TexinfoOffset(k) + 1)]
                      /\ poly.tex.texcoords[3] =
                           [u |-> ByteOnDisc(TexinfoOffset(k) + 8),
                            v |-> ByteOnDisc(TexinfoOffset(k) + 9)]
                      /\ GroupType(k) = FFT_POLYTYPE_QUAD =>
                           poly.tex.texcoords[4] =
                               [u |-> ByteOnDisc(TexinfoOffset(k) + 10),
                                v |-> ByteOnDisc(TexinfoOffset(k) + 11)]
                      /\ poly.tiles.x = ByteOnDisc(TilesOffset(k) + 1)
                 /\ k >= Textured =>
                      poly.untex =
                          [unknown_a |-> ByteOnDisc(UntexinfoOffset(k)),
                           unknown_b |-> ByteOnDisc(UntexinfoOffset(k) + 1),
                           unknown_c |-> ByteOnDisc(UntexinfoOffset(k) + 2),
                           unknown_d |-> ByteOnDisc(UntexinfoOffset(k) + 3)]

\* The case of C24: every pass has triangles and quads to read.
C24_Witness ==
    /\ GeometryDecoded
    /\ TexTris > 0 /\ TexQuads > 0 /\ UntexTris > 0 /\ UntexQuads > 0
    /\ span.offset = span.size
    /\ span.offset = last.pre + 8 + 84 + 42 + 22 + 8 + 4

(* C25: the untextured-info pass writes only polygons N+P .. N+P+Q+R-1 and *)
(* the normals, texture-info and tile-location passes only polygons        *)
(* 0 .. N+P-1: the untex fields of the textured polygons and the normal,   *)
(* tex and tile fields of the untextured polygons stay zero.               *)
C25_PassFrames ==
    GeometryDecoded =>
        \A k \in DOMAIN last.geometry.polygons :
            LET poly == last.geometry.polygons[k]
            IN  IF k < Textured
                THEN poly.untex = ZeroPolygon.untex
                ELSE /\ \A j \in 1..4 :
                          poly.vertices[j].normal =
                              ZeroPolygon.vertices[j].normal
                     /\ poly.tex = ZeroPolygon.tex
                     /\ poly.tiles = ZeroPolygon.tiles

(* The case of C25: textured and untextured polygons side by side, the     *)
(* passes having written non-zero values to those they are for.            *)
C25_Witness ==
    /\ GeometryDecoded
    /\ TexQuads > 0 /\ UntexTris > 0 /\ UntexQuads > 0
    /\ last.geometry.polygons[Textured - 1].vertices[4].normal.x # 0
    /\ last.geometry.polygons[Textured - 1].tex.clut # 0
    /\ last.geometry.polygons[Textured - 1].tiles.x # 0
    /\ last.geometry.polygons[Textured].untex.unknown_a # 0
    /\ last.geometry.polygons[PolygonCount - 1].untex.unknown_d # 0

(* C26: for every textured polygon the tile-location pass decodes its two  *)
(* bytes (b0, b1) as tiles.elevation = bit 0 of b0, tiles.z = the 7-bit    *)
(* value in bits 1-7 of b0 (b0 >> 1, 0..127) and tiles.x = b1, whatever    *)
(* b0 and b1 are.                                                          *)
C26_TileLocation ==
    GeometryDecoded =>
        \A k \in 0..(Textured - 1) :
            LET b0 == ByteOnDisc(TilesOffset(k))
                b1 == ByteOnDisc(TilesOffset(k) + 1)
            IN  /\ last.geometry.polygons[k].tiles.elevation = b0 % 2
                /\ last.geometry.polygons[k].tiles.z = b0 \div 2
                /\ last.geometry.polygons[k].tiles.x = b1

\* What the code does instead: z is b0 >> 1 without its lowest bit.
TileLocationAsCoded ==
    GeometryDecoded =>
        \A k \in 0..(Textured - 1) :
            LET b0 == ByteOnDisc(TilesOffset(k))
                b1 == ByteOnDisc(TilesOffset(k) + 1)
            IN  /\ last.geometry.polygons[k].tiles.elevation = b0 % 2
                /\ last.geometry.polygons[k].tiles.z = 2 * (b0 \div 4)
                /\ last.geometry.polygons[k].tiles.x = b1

---------------------------------------------------------------------------
(* The lighting specification: a mesh resource that is a header and, right *)
(* behind it, a lighting chunk whose three lights take their colours from  *)
(* LightColors; the header points to the chunk or holds no pointer at all. *)
(* fft_mesh_read is applied to it, or fft_lighting_read with the cursor at *)
(* the start of the resource or at the start of the chunk.                 *)

(* The colours of one light: black, a bright one, components that cancel,  *)
(* a negative sum, and the two ends of the i16 range.                      *)
LightColors ==
    {<<0, 0, 0>>, <<1, 2, 3>>, <<-1, 0, 1>>, <<-1, 0, 0>>,
     <<32767, 32767, 32767>>, <<-32768, -32768, -32768>>}

\* An int16_t as the file stores it.
I16Bytes(v) == U16Bytes(IF v < 0 THEN v + 65536 ELSE v)

(* The lighting chunk of the lights with the colours cs[1], cs[2], cs[3]:  *)
(* the reds, the greens, the blues, then positions and colours of a        *)
(* pattern.                                                                *)
LightingBytes(cs) ==
    Concat([k \in 1..9 |-> I16Bytes(cs[((k - 1) % 3) + 1][((k - 1) \div 3) + 1])])
        \o [k \in 1..30 |-> (k * 29 + 7) % 256]

\* The header: a pattern around the four pointers fft_mesh_read follows.
LightingHeader(present) ==
    [k \in 1..FFT_MESH_HEADER_SIZE |->
        IF k - 1 \in (64..71) \cup (100..107)
        THEN IF present /\ k - 1 = 100 THEN FFT_MESH_HEADER_SIZE ELSE 0
        ELSE (k * 3 + 1) % 256]

InitLighting ==
    /\ \E cs \in [1..3 -> LightColors], present \in BOOLEAN :
         \E cut \in 0..1, offset \in {0, FFT_MESH_HEADER_SIZE} :
            LET data == LightingHeader(present) \o LightingBytes(cs)
            IN  span = [data |-> SubSeq(data, 1, Len(data) - cut),
                        size |-> Len(data) - cut, offset |-> offset]
    /\ status = "running"
    /\ last = NoCall
    /\ disc = NoDisc
    /\ mem = fft_mem_init
    /\ image = NoImage
    /\ clut = NoImage
    /\ map = NoMap
    /\ allocations_head = <<>>

\* A call of fft_lighting_read(&span).
LightingRead ==
    /\ status = "running"
    /\ last = NoCall
    /\ LET r == fft_lighting_read(span)
       IN  /\ span' = r.span
           /\ status' = r.status
           /\ last' = [op |-> "fft_lighting_read", pre |-> span.offset,
                       error |-> r.error, lighting |-> r.lighting]
    /\ UNCHANGED <<disc, mem, image, clut, map, allocations_head>>

NextLighting == LightingRead \/ MeshRead

SpecLighting == InitLighting /\ [][NextLighting]_vars

---------------------------------------------------------------------------
(* Claims C27 and C28.                                                     *)

\* The three u8 of the resource at byte off as a colour.
Rgb8OnDisc(off) ==
    [r |-> ByteOnDisc(off), g |-> ByteOnDisc(off + 1),
     b |-> ByteOnDisc(off + 2)]

(* C27: fft_lighting_read takes exactly 48 bytes and assigns them in       *)
(* non-interleaved colour order: the i16 at byte 2i is light i's red, at   *)
(* 6+2i its green, at 12+2i its blue (i = 0..2); then the three (x, y, z)  *)
(* i16 positions at 18+6i; then ambient, background-top and                *)
(* background-bottom RGB8, then 3 unknown bytes.                           *)
C27_LightingLayout ==
    (last.op = "fft_lighting_read" /\ status = "running") =>
        /\ span.offset = last.pre + 48
        /\ \A i \in 0..2 :
             /\ last.lighting.lights[i].color =
                  [r |-> I16At(last.pre + 2 * i),
                   g |-> I16At(last.pre + 6 + 2 * i),
                   b |-> I16At(last.pre + 12 + 2 * i)]
             /\ last.lighting.lights[i].position =
                  XyzOnDisc(last.pre + 18 + 6 * i)
        /\ last.lighting.ambient_color = Rgb8OnDisc(last.pre + 36)
        /\ last.lighting.background_top = Rgb8OnDisc(last.pre + 39)
        /\ last.lighting.background_bottom = Rgb8OnDisc(last.pre + 42)
        /\ last.lighting.unknown_a = ByteOnDisc(last.pre + 45)
        /\ last.lighting.unknown_b = ByteOnDisc(last.pre + 46)
        /\ last.lighting.unknown_c = ByteOnDisc(last.pre + 47)

(* The case of C27: a chunk whose lights differ in every colour component, *)
(* read from the chunk's start to the end of the resource.                 *)
C27_Witness ==
    /\ last.op = "fft_lighting_read"
    /\ status = "running"
    /\ last.pre = FFT_MESH_HEADER_SIZE
    /\ span.offset = span.size
    /\ last.lighting.lights[0].color = [r |-> 1, g |-> 2, b |-> 3]
    /\ last.lighting.lights[1].color = [r |-> -1, g |-> 0, b |-> 1]
    /\ last.lighting.lights[2].color = [r |-> -32768, g |-> -32768, b |-> -32768]
    /\ last.lighting.unknown_c # 0

\* The colour of light i as the lighting chunk at the header's pointer has it.
LightOnDisc(i) ==
    [r |-> I16At(HeaderPointerAt(100) + 2 * i),
     g |-> I16At(HeaderPointerAt(100) + 6 + 2 * i),
     b |-> I16At(HeaderPointerAt(100) + 12 + 2 * i)]

LightSum(i) == LightOnDisc(i).r + LightOnDisc(i).g + LightOnDisc(i).b

(* C28: after fft_mesh_read with a lighting sub-chunk present,             *)
(* meta.light_count is the number of the 3 decoded lights that are not     *)
(* disabled, a light being disabled exactly when its three signed colour   *)
(* components sum to zero; light_count is always in 0..3 and is 0 when the *)
(* lighting sub-chunk is absent.                                           *)
C28_LightCount ==
    (last.op = "fft_mesh_read" /\ status = "running") =>
        /\ last.mesh.meta.light_count \in 0..3
        /\ IF HeaderBytesAt(100) # <<0, 0, 0, 0>>
           THEN last.mesh.meta.light_count =
                    Cardinality({ i \in 0..2 : LightSum(i) # 0 })
           ELSE last.mesh.meta.light_count = 0

\* What the code does instead: a light counts when its sum is above zero.
LightCountAsCoded ==
    (last.op = "fft_mesh_read" /\ status = "running") =>
        /\ last.mesh.meta.light_count \in 0..3
        /\ IF HeaderBytesAt(100) # <<0, 0, 0, 0>>
           THEN last.mesh.meta.light_count =
                    Cardinality({ i \in 0..2 : LightSum(i) > 0 })
           ELSE last.mesh.meta.light_count = 0

\* C28 holds for the lights whose colour components are not negative.
LightCountOfNonNegative ==
    (/\ last.op = "fft_mesh_read" /\ status = "running"
     /\ HeaderBytesAt(100) # <<0, 0, 0, 0>>
     /\ \A i \in 0..2 : /\ LightOnDisc(i).r >= 0 /\ LightOnDisc(i).g >= 0
                        /\ LightOnDisc(i).b >= 0) =>
        last.mesh.meta.light_count =
            Cardinality({ i \in 0..2 : LightSum(i) # 0 })

---------------------------------------------------------------------------
(* The terrain specification: fft_terrain_read applied to a terrain chunk  *)
(* of x_count by z_count tiles on two levels, for small grids, grids that  *)
(* fill a level of the array exactly or nearly, the largest grids the      *)
(* count assertions let through, and counts they reject; the chunk whole,  *)
(* one byte short, or with a flat tile of sloped height 2 as its last.     *)

MaxTerrain == 3

(* The 8 bytes of tile t: surface, unread byte, sloped height bottom,      *)
(* depth and sloped height top (0 or 1), slope (flat for every third       *)
(* tile), padding, misc, camera direction.                                 *)
TerrainTileBytes(t) ==
    <<(t * 7) % 256, 9, t % 256, 32 * (t % 8) + (t % 2),
      IF t % 3 = 0 THEN SLOPE_FLAT ELSE 133, 9, (t * 65) % 256,
      (t \div 256) + 1>>

\* A flat tile whose sloped height top is 2.
TerrainBadTile == <<1, 9, 0, 2, SLOPE_FLAT, 9, 0, 0>>

\* The chunk of an x_count by z_count grid.
TerrainBytes(x_count, z_count, variant) ==
    LET total == 2 * x_count * z_count
        whole == <<x_count, z_count>>
                   \o Concat([k \in 1..total |-> TerrainTileBytes(k - 1)])
    IN  CASE variant = "whole" -> whole
          [] variant = "short" -> SubSeq(whole, 1, Len(whole) - 1)
          [] variant = "bad" ->
                IF total = 0 THEN whole
                ELSE SubSeq(whole, 1, Len(whole) - 8) \o TerrainBadTile

TerrainCounts ==
    ((0..MaxTerrain) \X (0..MaxTerrain))
    \cup
    {<<16, 16>>, <<17, 15>>, <<17, 16>>, <<16, 17>>,
     <<FFT_TERRAIN_MAX_X, FFT_TERRAIN_MAX_Z>>,
     <<FFT_TERRAIN_MAX_X + 1, 1>>, <<1, FFT_TERRAIN_MAX_Z + 1>>,
     <<FFT_TERRAIN_MAX_X, 0>>, <<255, 255>>}

InitTerrain ==
    /\ \E c \in TerrainCounts, variant \in {"whole", "short", "bad"} :
         LET data == IF c[1] <= FFT_TERRAIN_MAX_X /\ c[2] <= FFT_TERRAIN_MAX_Z
                     THEN TerrainBytes(c[1], c[2], variant)
                     ELSE <<c[1], c[2]>> \o TerrainTileBytes(0)
         IN  span = [data |-> data, size |-> Len(data), offset |-> 0]
    /\ status = "running"
    /\ last = NoCall
    /\ disc = NoDisc
    /\ mem = fft_mem_init
    /\ image = NoImage
    /\ clut = NoImage
    /\ map = NoMap
    /\ allocations_head = <<>>

\* A call of fft_terrain_read(&span).
TerrainRead ==
    /\ status = "running"
    /\ last = NoCall
    /\ \E r \in fft_terrain_read(span) :
         /\ span' = r.span
         /\ status' = r.status
         /\ last' = [op |-> "fft_terrain_read", pre |-> span.offset,
                     error |-> r.error, terrain |-> r.terrain]
    /\ UNCHANGED <<disc, mem, image, clut, map, allocations_head>>

NextTerrain == TerrainRead

SpecTerrain == InitTerrain /\ [][NextTerrain]_vars

---------------------------------------------------------------------------
(* Claim C29.                                                              *)

\* The counts the chunk starts with.
TerrainX == span.data[last.pre + 1]

TerrainZ == span.data[last.pre + 2]

\* The tile the chunk holds for (level, z, x).
TileOnDisc(level, z, x) ==
    TileOf(BytesAt(last.pre + 2
                     + 8 * ((level * TerrainZ + z) * TerrainX + x), 8))

(* fft_terrain_read went through its count assertions and no assertion of  *)
(* its loops ended it.                                                     *)
TerrainAccepted ==
    /\ last.op = "fft_terrain_read"
    /\ span.size >= 2
    /\ TerrainX <= 17
    /\ TerrainZ <= 18
    /\ status # "fatal"

(* C29: for every (x_count, z_count) that fft_terrain_read accepts         *)
(* (x_count <= 17 and z_count <= 18), each tile (level, z, x) with         *)
(* level < 2, z < z_count, x < x_count is stored at                        *)
(* tiles[level][z * x_count + x] with z * x_count + x below the per-level  *)
(* capacity of 256: no tile write lands outside its level's array or       *)
(* overwrites a tile of the other level.                                   *)
C29_TilesInLevel ==
    TerrainAccepted =>
        /\ status = "running"
        /\ \A level \in 0..1, z \in 0..(TerrainZ - 1), x \in 0..(TerrainX - 1) :
             /\ z * TerrainX + x < 256
             /\ last.terrain.tiles[256 * level + z * TerrainX + x] =
                    TileOnDisc(level, z, x)

\* C29 holds for the grids of at most 256 tiles a level.
TilesInLevelWithinCapacity ==
    (TerrainAccepted /\ TerrainX * TerrainZ <= 256) =>
        /\ status = "running"
        /\ \A level \in 0..1, z \in 0..(TerrainZ - 1), x \in 0..(TerrainX - 1) :
             /\ z * TerrainX + x < 256
             /\ last.terrain.tiles[256 * level + z * TerrainX + x] =
                    TileOnDisc(level, z, x)

\* The case of a level filled to its last element.
TerrainFullWitness ==
    /\ TerrainAccepted
    /\ status = "running"
    /\ TerrainX = 16 /\ TerrainZ = 16
    /\ DOMAIN last.terrain.tiles = 0..511
    /\ last.terrain.tiles[255] # last.terrain.tiles[511]

(* The grid of 17 x 16 whose call returned: the tiles of level 0 behind    *)
(* the 256th lie over the first of level 1 and were overwritten, those of  *)
(* level 1 behind its 240th went behind the array.                         *)
TerrainOverflowWitness ==
    /\ TerrainAccepted
    /\ status = "running"
    /\ TerrainX = 17 /\ TerrainZ = 16
    /\ DOMAIN last.terrain.tiles = 0..511
    /\ last.terrain.tiles[256] = TileOnDisc(1, 0, 0)
    /\ last.terrain.tiles[256] # TileOnDisc(0, 15, 1)

---------------------------------------------------------------------------
(* Claim C30.                                                              *)

\* The mesh records among the first n of a directory.
MeshRecords(records, n) ==
    { k \in 1..n : records[k].type \in {FFT_RECORDTYPE_MESH_PRIMARY,
                                        FFT_RECORDTYPE_MESH_OVERRIDE,
                                        FFT_RECORDTYPE_MESH_ALT} }

(* C30: after fft_map_data_read, the meta stored on each primary-mesh,     *)
(* override-mesh and alt-mesh record equals the meta (presence flags,      *)
(* polygon counts, light count) of the mesh that was decoded from that     *)
(* same record's resource.                                                 *)
C30_RecordMeta ==
    (last.op = "fft_map_data_read" /\ status = "running") =>
        \A k \in MeshRecords(map.records, last.visited) :
            map.records[k].meta \in
                { mesh.meta : mesh \in MeshesOf(map.records[k]) }

\* C30 holds for the primary-mesh records.
PrimaryRecordMeta ==
    (last.op = "fft_map_data_read" /\ status = "running") =>
        \A k \in PrimaryRecords(map.records, last.visited) :
            map.records[k].meta \in
                { mesh.meta : mesh \in MeshesOf(map.records[k]) }

(* What the code does instead for override-mesh and alt-mesh records: a    *)
(* record behind the last primary-mesh record carries the meta of the      *)
(* primary mesh, whatever its own resource decodes to.                     *)
OtherRecordMetaIsPrimary ==
    (last.op = "fft_map_data_read" /\ status = "running") =>
        \A k \in MeshRecords(map.records, last.visited)
                    \ PrimaryRecords(map.records, last.visited) :
            (/\ PrimaryRecords(map.records, last.visited) # {}
             /\ k > Greatest(PrimaryRecords(map.records, last.visited)))
                => map.records[k].meta = map.primary_mesh.meta

(* The case: an override record whose resource has no lighting chunk,      *)
(* carrying the lighting of the primary mesh.                              *)
RecordMetaWitness ==
    /\ last.op = "fft_map_data_read"
    /\ status = "running"
    /\ \E k \in MeshRecords(map.records, last.visited) :
         /\ map.records[k].type = FFT_RECORDTYPE_MESH_OVERRIDE
         /\ map.records[k].meta.has_lighting
         /\ ~map.override_mesh.meta.has_lighting

===========================================================================
